---- MODULE Spec2Model ----
(***************************************************************************)
(* The client-side stores of the SmartCafe admin application: CafeStore    *)
(* and MenuStore (NgRx signal stores), the REST requests their async       *)
(* methods issue, and the backend that answers them.                       *)
(*                                                                         *)
(* One store method call is a record of `calls'; every `await' in a method *)
(* is a point where the call is suspended: the backend answers a pending   *)
(* request in a step of its own, and the method's continuation runs in a   *)
(* later step, so that calls overlap exactly as the event loop allows.     *)
(***************************************************************************)
EXTENDS Integers, Sequences, FiniteSets, TLC

VARIABLES
  cafeStore,   \* CafeState: cafes, selectedCafe, loading, error
  menuStore,   \* MenuStoreState: menus, selectedMenu, activeMenu, currentCafeId, loading, error
  srvCafes,    \* backend: the cafes, in creation order
  srvMenus,    \* backend: the menus of each cafe, in creation order
  srvCreated,  \* backend: number of entities created so far (next fresh id)
  calls,       \* the store method calls in flight: call id -> call record
  started,     \* number of store method calls started so far
  returned,    \* the most recently settled call and what its promise settled to
  view,        \* the form component that is mounted, with its form and its signals
  http,        \* one HTTP request on its way through the interceptors
  fm,          \* the form tree the FormErrorMapperService works on
  loadingService  \* LoadingService: loadingCount and isLoading

vars ==
  <<cafeStore, menuStore, srvCafes, srvMenus, srvCreated, calls, started, returned,
    view, http, fm, loadingService>>

\* What the stores and their backend never touch.
outside == <<http, fm, loadingService>>


(***************************************************************************)
(* Bounds                                                                  *)
(***************************************************************************)
\* Number of store method calls made in one behaviour (they may all overlap).
MaxCalls == 2

\* Number of sections of the menu form, and of items in all its sections.
MaxSections == 3
MaxItems == 2

\* Number of times the submit handler of the mounted form component is invoked.
MaxSubmits == 2

(***************************************************************************)
(* Values                                                                  *)
(***************************************************************************)
\* JavaScript null / undefined / booleans as returned by the store methods.
NULL == "null"
UNDEFINED == "undefined"
TRUE_ == "true"
FALSE_ == "false"

\* selectedCafe: CafeDto | null. The null cafe has no id a request can name.
NullCafe == [id |-> NULL, name |-> NULL, contactInfo |-> NULL]

\* selectedMenu, activeMenu: MenuDto | null.
NullMenu == [id |-> NULL, name |-> NULL, state |-> NULL]

\* enum MenuState
Draft == "Draft"
Published == "Published"
Active == "Active"

\* The cafes the backend holds when the application starts.
InitialCafes ==
  << [id |-> "c1", name |-> "Test Cafe", contactInfo |-> "test@cafe.com"],
     [id |-> "c2", name |-> "Test Cafe 2", contactInfo |-> "test2@cafe.com"] >>

\* The menus the backend holds for each cafe when the application starts.
CafeIds == {"c1", "c2"}

InitialMenus ==
  [cafeId \in CafeIds |->
     IF cafeId = "c1"
       THEN << [id |-> "m1", name |-> "Breakfast", state |-> Active],
               [id |-> "m2", name |-> "Lunch", state |-> Published] >>
       ELSE << [id |-> "m3", name |-> "Dinner", state |-> Draft] >>]

\* Ids the backend hands out to created cafes and menus, in order.
NewCafeIds == <<"c3", "c4", "c5", "c6">>
NewMenuIds == <<"m4", "m5", "m6", "m7">>

\* Ids a caller passes to selectCafe / deleteCafe: those of the initial cafes and
\* of the first cafe created.
CafeIdArgs == {"c1", "c2", "c3"}

\* Payloads a caller passes to createCafe.
CreateCafeRequests ==
  { [name |-> "New Cafe", contactInfo |-> "new@cafe.com"],
    [name |-> "Test Cafe", contactInfo |-> NULL] }

\* (cafeId, menuId) pairs a caller passes to the MenuStore methods.
MenuRefs ==
  { [cafeId |-> "c1", menuId |-> "m1"],
    [cafeId |-> "c1", menuId |-> "m2"],
    [cafeId |-> "c2", menuId |-> "m3"] }

\* Payloads of createMenu / updateMenu and the name given to cloneMenu.
CreateMenuRequests == { [name |-> "New Menu"] }
UpdateMenuRequests == { [name |-> "Renamed"] }
CloneNames == { "Copy" }

\* What a failed request rejects with: an Error (tests: throwError(() => new
\* Error(m))) or a value that is no Error, such as Angular's HttpErrorResponse,
\* which has a message but is not an instance of Error.
Failures ==
  { [isError |-> TRUE, message |-> "API Error"],
    [isError |-> FALSE, message |-> "Http failure response"] }

(***************************************************************************)
(* Helpers                                                                 *)
(***************************************************************************)
\* patchState(store, patch): the fields of patch replace those of the state.
patchState(state, patch) ==
  [k \in DOMAIN state |-> IF k \in DOMAIN patch THEN patch[k] ELSE state[k]]

\* A variant of errorMessage that ignores the message of the Error.
errorMessageFallbackOnly(error, fallback) == fallback

\* error instanceof Error ? error.message : fallback
errorMessage(error, fallback) ==
  IF error.isError THEN error.message ELSE fallback

Range(seq) == {seq[k] : k \in DOMAIN seq}

Pending == [status |-> "pending"]
Ok(body) == [status |-> "ok", body |-> body]

\* The async methods of CafeStore; every other kind of call is a MenuStore method.
CafeKinds == {"loadCafes", "selectCafe", "createCafe", "deleteCafe"}

SameStore(kind1, kind2) == (kind1 \in CafeKinds) <=> (kind2 \in CafeKinds)

\* A new call of a store method, suspended at its first await on request req.
\* `alone' records that no other call of the same store has been in flight
\* during the call so far.
NewCall(kind, args, req) ==
  [kind |-> kind, args |-> args, reqs |-> (req :> Pending),
   alone |-> \A j \in DOMAIN calls : ~SameStore(calls[j].kind, kind)]

\* The call is made by `caller': a handler of the mounted form component that
\* awaits it, or NULL for any other caller.
BeginBy(caller, kind, args, req) ==
  /\ started < MaxCalls
  /\ started' = started + 1
  /\ calls' = (started + 1 :> ([caller |-> caller] @@ NewCall(kind, args, req))) @@
               [j \in DOMAIN calls |->
                  IF SameStore(calls[j].kind, kind)
                    THEN [calls[j] EXCEPT !.alone = FALSE] ELSE calls[j]]
  /\ UNCHANGED <<returned, outside>>

Begin(kind, args, req) ==
  /\ BeginBy(NULL, kind, args, req)
  /\ UNCHANGED view

IsCall(i, kinds) == i \in DOMAIN calls /\ calls[i].kind \in kinds

\* The call is suspended on request req, which the backend has not answered.
Awaits(i, req) ==
  /\ i \in DOMAIN calls
  /\ req \in DOMAIN calls[i].reqs
  /\ calls[i].reqs[req] = Pending

\* The backend answered request req of the call with a success response.
Succeeded(i, req) ==
  /\ req \in DOMAIN calls[i].reqs
  /\ calls[i].reqs[req].status = "ok"

\* A request the call awaits is rejected (transport failure, 4xx, 5xx): its
\* promise, and with it Promise.all and firstValueFrom, rejects at once.
Fails(i) == \E req \in DOMAIN calls[i].reqs : calls[i].reqs[req] = Pending

Body(i, req) == calls[i].reqs[req].body

Respond(i, req, response) ==
  /\ calls' = [calls EXCEPT ![i].reqs[req] = response]
  /\ UNCHANGED <<view, outside>>

\* The call issues the next request(s) and is suspended again.
Issue(i, reqSet) ==
  /\ calls' = [calls EXCEPT ![i].reqs = [r \in reqSet |-> Pending] @@ @]
  /\ UNCHANGED <<started, returned, view, outside>>

(***************************************************************************)
(* Form components: what they hold, and how they resume after an await     *)
(***************************************************************************)
\* No form component is mounted.
NoView == [component |-> NULL]

\* No request is on its way; no form is handed to the error mapper.
NoRequest == [phase |-> NULL]
NoForm == [shape |-> NULL]

\* LoadingService as constructed: loadingCount = signal(0), isLoading =
\* signal(false).  `shows' and `hides' count the calls made, and `balanced'
\* tells that no hide() was called with as many hide() as show() calls made.
LoadingInitial ==
  [loadingCount |-> 0, isLoading |-> FALSE, shows |-> 0, hides |-> 0, balanced |-> TRUE]

Page == "MenuFormPageComponent"
Form == "MenuFormComponent"
Dialog == "CafeFormDialogComponent"

\* The component is on the route it was created for: it has not navigated.
NoRoute == <<>>

\* router.navigate(['/cafes', cafeId, 'menus'])
MenuListUrl(cafeId) == <<"/cafes", cafeId, "menus">>

\* FormGroup.value of a section group and of the whole menuForm, computed from
\* the controls in their current order.
SectionValue(group) ==
  [name |-> group.name,
   items |-> [k \in DOMAIN group.items |-> [name |-> group.items[k].name]]]

FormValue(name, sections) ==
  [name |-> name, sections |-> [k \in DOMAIN sections |-> SectionValue(sections[k])]]

\* AbstractControl.updateValueAndValidity(): the cached value of the control
\* and of its ancestors, up to menuForm, is computed again.
updateValueAndValidity(v) == [v EXCEPT !.value = FormValue(v.name, v.sections)]

\* MenuFormPageComponent.loadMenu, after `await this.menuStore.loadMenu(...)':
\* the form takes the name of the selected menu; the sections are cleared and
\* filled from the menu (the menus of this backend have no sections).
PageLoaded(v, menu) ==
  IF menu = NullMenu THEN v
  ELSE updateValueAndValidity([v EXCEPT !.name = menu.name, !.sections = <<>>])

\* MenuFormPageComponent.onSubmit, after the await of updateMenu / createMenu
PageSaved(v, error) ==
  [v EXCEPT !.navigated = IF error = NULL THEN MenuListUrl(v.cafeId) ELSE @,
            !.isSubmitting = FALSE]

\* MenuFormComponent.loadMenu, after `await this.menuStore.selectMenu(...)'
FormLoaded(v, menu) ==
  IF menu = NullMenu THEN v ELSE [v EXCEPT !.name = menu.name]

\* MenuFormComponent.onSubmit, after the await: this.onCancel()
FormSaved(v) == [v EXCEPT !.navigated = MenuListUrl(v.cafeId)]

\* CafeFormDialogComponent.onSubmit, after the await of createCafe
DialogSaved(v, result) ==
  IF result # NULL THEN [v EXCEPT !.closed = TRUE, !.result = result] ELSE v

\* The handler that awaits call i resumes in the same turn in which the
\* promise of the call settles; it reads the store as the call left it.
Resume(i, value) ==
  LET caller == calls[i].caller
  IN CASE caller = NULL -> view
       [] caller = "onSubmit" /\ view.component = Page -> PageSaved(view, menuStore'.error)
       [] caller = "loadMenu" /\ view.component = Page ->
            PageLoaded(view, menuStore'.selectedMenu)
       [] caller = "onSubmit" /\ view.component = Form -> FormSaved(view)
       [] caller = "loadMenu" /\ view.component = Form ->
            FormLoaded(view, menuStore'.selectedMenu)
       [] caller = "onSubmit" /\ view.component = Dialog -> DialogSaved(view, value)

\* No request of the call was rejected.
NoFailure == [isError |-> FALSE, message |-> NULL]

\* The promise of the call settles: `return value' (or an escaped exception).
\* `rejection' records what the failed request, if any, was rejected with.
\* `before' records the call that settled before this one.
Settle(i, how, value, rejection) ==
  /\ calls' = [j \in DOMAIN calls \ {i} |-> calls[j]]
  /\ returned' = [id |-> i, kind |-> calls[i].kind, args |-> calls[i].args,
                  settled |-> how, value |-> value, rejection |-> rejection,
                  before |-> [id |-> returned.id, kind |-> returned.kind,
                              args |-> returned.args, rejection |-> returned.rejection]]
  /\ view' = Resume(i, value)
  /\ UNCHANGED <<started, outside>>

\* return value, at the end of the try block
Return(i, value) == Settle(i, "resolved", value, NoFailure)

\* return value, at the end of the catch block entered with `error'
ReturnCaught(i, value, error) == Settle(i, "resolved", value, error)

(***************************************************************************)
(* Backend: cafes                                                          *)
(***************************************************************************)
CafeExists(id) == \E c \in Range(srvCafes) : c.id = id

CafeById(id) == CHOOSE c \in Range(srvCafes) : c.id = id

\* GET /cafes
ServerListCafes(i) ==
  /\ Awaits(i, "listCafes")
  /\ Respond(i, "listCafes", Ok([cafes |-> srvCafes]))
  /\ UNCHANGED <<cafeStore, menuStore, srvCafes, srvMenus, srvCreated, started, returned>>

\* GET /cafes/{cafeId}
ServerGetCafe(i) ==
  /\ Awaits(i, "getCafe")
  /\ CafeExists(calls[i].args.cafeId)
  /\ Respond(i, "getCafe", Ok(CafeById(calls[i].args.cafeId)))
  /\ UNCHANGED <<cafeStore, menuStore, srvCafes, srvMenus, srvCreated, started, returned>>

\* POST /cafes
ServerCreateCafe(i) ==
  /\ Awaits(i, "createCafe")
  /\ LET id == NewCafeIds[srvCreated.cafes + 1]
         cafe == [id |-> id, name |-> calls[i].args.request.name,
                  contactInfo |-> calls[i].args.request.contactInfo]
     IN /\ srvCafes' = Append(srvCafes, cafe)
        /\ srvCreated' = [srvCreated EXCEPT !.cafes = @ + 1]
        /\ Respond(i, "createCafe", Ok([cafeId |-> id]))
  /\ UNCHANGED <<cafeStore, menuStore, srvMenus, started, returned>>

\* DELETE /cafes/{cafeId}
ServerDeleteCafe(i) ==
  /\ Awaits(i, "deleteCafe")
  /\ CafeExists(calls[i].args.cafeId)
  /\ srvCafes' = SelectSeq(srvCafes, LAMBDA c : c.id # calls[i].args.cafeId)
  /\ Respond(i, "deleteCafe", Ok(UNDEFINED))
  /\ UNCHANGED <<cafeStore, menuStore, srvMenus, srvCreated, started, returned>>

(***************************************************************************)
(* Backend: menus.  A menu is Draft, Published or Active; the backend      *)
(* keeps at most one Active menu per cafe: activating a menu moves the     *)
(* cafe's Active menu, if any, back to Published.                          *)
(***************************************************************************)
MenuExists(cafeId, menuId) == \E m \in Range(srvMenus[cafeId]) : m.id = menuId

MenuById(cafeId, menuId) == CHOOSE m \in Range(srvMenus[cafeId]) : m.id = menuId

HasActiveMenu(cafeId) == \E m \in Range(srvMenus[cafeId]) : m.state = Active

\* MenuSummaryDto of a menu
Summary(m) == [menuId |-> m.id, name |-> m.name, state |-> m.state]

Summaries(seq) == [k \in DOMAIN seq |-> Summary(seq[k])]

AddMenu(i, cafeId, name, req) ==
  LET id == NewMenuIds[srvCreated.menus + 1]
  IN /\ srvMenus' = [srvMenus EXCEPT ![cafeId] =
                        Append(@, [id |-> id, name |-> name, state |-> Draft])]
     /\ srvCreated' = [srvCreated EXCEPT !.menus = @ + 1]
     /\ Respond(i, req, Ok([menuId |-> id]))

\* GET /cafes/{cafeId}/menus
ServerListMenus(i) ==
  /\ Awaits(i, "listMenus")
  /\ Respond(i, "listMenus", Ok([menus |-> Summaries(srvMenus[calls[i].args.cafeId])]))
  /\ UNCHANGED <<cafeStore, menuStore, srvCafes, srvMenus, srvCreated, started, returned>>

\* GET /cafes/{cafeId}/menus/{menuId}
ServerGetMenu(i) ==
  /\ Awaits(i, "getMenu")
  /\ MenuExists(calls[i].args.cafeId, calls[i].args.menuId)
  /\ Respond(i, "getMenu", Ok(MenuById(calls[i].args.cafeId, calls[i].args.menuId)))
  /\ UNCHANGED <<cafeStore, menuStore, srvCafes, srvMenus, srvCreated, started, returned>>

\* GET /cafes/{cafeId}/menus/active
ServerGetActiveMenu(i) ==
  /\ Awaits(i, "getActiveMenu")
  /\ HasActiveMenu(calls[i].args.cafeId)
  /\ Respond(i, "getActiveMenu",
             Ok(CHOOSE m \in Range(srvMenus[calls[i].args.cafeId]) : m.state = Active))
  /\ UNCHANGED <<cafeStore, menuStore, srvCafes, srvMenus, srvCreated, started, returned>>

\* POST /cafes/{cafeId}/menus
ServerCreateMenu(i) ==
  /\ Awaits(i, "createMenu")
  /\ AddMenu(i, calls[i].args.cafeId, calls[i].args.request.name, "createMenu")
  /\ UNCHANGED <<cafeStore, menuStore, srvCafes, started, returned>>

\* PUT /cafes/{cafeId}/menus/{menuId}
ServerUpdateMenu(i) ==
  /\ Awaits(i, "updateMenu")
  /\ MenuExists(calls[i].args.cafeId, calls[i].args.menuId)
  /\ srvMenus' = [srvMenus EXCEPT ![calls[i].args.cafeId] = [k \in DOMAIN @ |->
        LET m == @[k]
        IN IF m.id = calls[i].args.menuId
                        THEN [m EXCEPT !.name = calls[i].args.request.name] ELSE m]]
  /\ Respond(i, "updateMenu", Ok(UNDEFINED))
  /\ UNCHANGED <<cafeStore, menuStore, srvCafes, srvCreated, started, returned>>

\* DELETE /cafes/{cafeId}/menus/{menuId}
ServerDeleteMenu(i) ==
  /\ Awaits(i, "deleteMenu")
  /\ MenuExists(calls[i].args.cafeId, calls[i].args.menuId)
  /\ srvMenus' = [srvMenus EXCEPT ![calls[i].args.cafeId] =
                    SelectSeq(@, LAMBDA m : m.id # calls[i].args.menuId)]
  /\ Respond(i, "deleteMenu", Ok(UNDEFINED))
  /\ UNCHANGED <<cafeStore, menuStore, srvCafes, srvCreated, started, returned>>

\* POST /cafes/{cafeId}/menus/{menuId}/clone
ServerCloneMenu(i) ==
  /\ Awaits(i, "cloneMenu")
  /\ MenuExists(calls[i].args.cafeId, calls[i].args.menuId)
  /\ AddMenu(i, calls[i].args.cafeId, calls[i].args.newName, "cloneMenu")
  /\ UNCHANGED <<cafeStore, menuStore, srvCafes, started, returned>>

\* POST /cafes/{cafeId}/menus/{menuId}/publish
ServerPublishMenu(i) ==
  /\ Awaits(i, "publishMenu")
  /\ MenuExists(calls[i].args.cafeId, calls[i].args.menuId)
  /\ MenuById(calls[i].args.cafeId, calls[i].args.menuId).state = Draft
  /\ srvMenus' = [srvMenus EXCEPT ![calls[i].args.cafeId] = [k \in DOMAIN @ |->
        LET m == @[k]
        IN IF m.id = calls[i].args.menuId
                        THEN [m EXCEPT !.state = Published] ELSE m]]
  /\ Respond(i, "publishMenu", Ok(UNDEFINED))
  /\ UNCHANGED <<cafeStore, menuStore, srvCafes, srvCreated, started, returned>>

\* POST /cafes/{cafeId}/menus/{menuId}/activate
ServerActivateMenu(i) ==
  /\ Awaits(i, "activateMenu")
  /\ MenuExists(calls[i].args.cafeId, calls[i].args.menuId)
  /\ MenuById(calls[i].args.cafeId, calls[i].args.menuId).state = Published
  /\ srvMenus' = [srvMenus EXCEPT ![calls[i].args.cafeId] = [k \in DOMAIN @ |->
        LET m == @[k]
        IN IF m.id = calls[i].args.menuId THEN [m EXCEPT !.state = Active]
                      ELSE IF m.state = Active THEN [m EXCEPT !.state = Published]
                      ELSE m]]
  /\ Respond(i, "activateMenu", Ok(UNDEFINED))
  /\ UNCHANGED <<cafeStore, menuStore, srvCafes, srvCreated, started, returned>>

(***************************************************************************)
(* CafeStore                                                               *)
(***************************************************************************)
CafeInitialState ==
  [cafes |-> <<>>, selectedCafe |-> NullCafe, loading |-> FALSE, error |-> NULL]

\* withComputed
cafeCount == Len(cafeStore.cafes)
hasCafes == Len(cafeStore.cafes) > 0

\* A variant of the catch block that rethrows after recording the error.
CafeCatchRethrows(i, fallback, value) ==
  /\ Fails(i)
  /\ \E error \in Failures :
       /\ cafeStore' = patchState(cafeStore,
                          [error |-> errorMessage(error, fallback), loading |-> FALSE])
       /\ Settle(i, "rejected", UNDEFINED, error)

\* A variant of the catch block that leaves loading true while another call
\* of the store is in flight.
CafeCatchCountsCalls(i, fallback, value) ==
  /\ Fails(i)
  /\ \E error \in Failures :
       /\ cafeStore' = patchState(cafeStore,
                          [error |-> errorMessage(error, fallback),
                           loading |-> \E j \in DOMAIN calls \ {i} :
                                         calls[j].kind \in CafeKinds])
       /\ ReturnCaught(i, value, error)

\* The catch block of a CafeStore method whose awaited request was rejected
\* with `error': error and loading are patched, the method returns `value'.
CafeCatch(i, fallback, value) ==
  /\ Fails(i)
  /\ \E error \in Failures :
       /\ cafeStore' = patchState(cafeStore,
                          [error |-> errorMessage(error, fallback), loading |-> FALSE])
       /\ ReturnCaught(i, value, error)

\* loadCafes(): the call up to its await
loadCafes ==
  /\ cafeStore' = patchState(cafeStore, [loading |-> TRUE, error |-> NULL])
  /\ Begin("loadCafes", [none |-> NULL], "listCafes")
  /\ UNCHANGED <<menuStore, srvCafes, srvMenus, srvCreated>>

\* A variant of loadCafesDone whose success path leaves loading as it is.
loadCafesDoneKeepsLoading(i) ==
  /\ IsCall(i, {"loadCafes"})
  /\ \/ /\ Succeeded(i, "listCafes")
        /\ cafeStore' = patchState(cafeStore, [cafes |-> Body(i, "listCafes").cafes])
        /\ Return(i, UNDEFINED)
     \/ CafeCatch(i, "Failed to load cafes", UNDEFINED)
  /\ UNCHANGED <<menuStore, srvCafes, srvMenus, srvCreated>>

\* loadCafes(): after the await
loadCafesDone(i) ==
  /\ IsCall(i, {"loadCafes"})
  /\ \/ /\ Succeeded(i, "listCafes")
        /\ cafeStore' = patchState(cafeStore,
                           [cafes |-> Body(i, "listCafes").cafes, loading |-> FALSE])
        /\ Return(i, UNDEFINED)
     \/ CafeCatch(i, "Failed to load cafes", UNDEFINED)
  /\ UNCHANGED <<menuStore, srvCafes, srvMenus, srvCreated>>

\* selectCafe(cafeId): the call up to its await
selectCafe(cafeId) ==
  /\ cafeStore' = patchState(cafeStore, [loading |-> TRUE, error |-> NULL])
  /\ Begin("selectCafe", [cafeId |-> cafeId], "getCafe")
  /\ UNCHANGED <<menuStore, srvCafes, srvMenus, srvCreated>>

\* selectCafe(cafeId): after the await
selectCafeDone(i) ==
  /\ IsCall(i, {"selectCafe"})
  /\ \/ /\ Succeeded(i, "getCafe")
        /\ cafeStore' = patchState(cafeStore,
                           [selectedCafe |-> Body(i, "getCafe"), loading |-> FALSE])
        /\ Return(i, UNDEFINED)
     \/ CafeCatch(i, "Failed to load cafe", UNDEFINED)
  /\ UNCHANGED <<menuStore, srvCafes, srvMenus, srvCreated>>

\* createCafe(request): the call up to its first await
createCafeBy(caller, request) ==
  /\ cafeStore' = patchState(cafeStore, [loading |-> TRUE, error |-> NULL])
  /\ BeginBy(caller, "createCafe", [request |-> request], "createCafe")
  /\ UNCHANGED <<menuStore, srvCafes, srvMenus, srvCreated>>

createCafe(request) ==
  /\ createCafeBy(NULL, request)
  /\ UNCHANGED view

\* A variant of createCafeDone that appends the created cafe to the local
\* collection instead of storing the list it received.
createCafeDoneAppends(i) ==
  /\ IsCall(i, {"createCafe"})
  /\ \/ /\ Succeeded(i, "listCafes")
        /\ cafeStore' = patchState(cafeStore,
             [cafes |-> Append(cafeStore.cafes,
                               [id |-> Body(i, "createCafe").cafeId,
                                name |-> calls[i].args.request.name,
                                contactInfo |-> calls[i].args.request.contactInfo]),
              loading |-> FALSE])
        /\ Return(i, Body(i, "createCafe").cafeId)
     \/ CafeCatch(i, "Failed to create cafe", NULL)
  /\ UNCHANGED <<menuStore, srvCafes, srvMenus, srvCreated>>

\* A variant of createCafeDone that drops the list it received.
createCafeDoneDropsList(i) ==
  /\ IsCall(i, {"createCafe"})
  /\ \/ /\ Succeeded(i, "listCafes")
        /\ cafeStore' = patchState(cafeStore, [loading |-> FALSE])
        /\ Return(i, Body(i, "createCafe").cafeId)
     \/ CafeCatch(i, "Failed to create cafe", NULL)
  /\ UNCHANGED <<menuStore, srvCafes, srvMenus, srvCreated>>

\* createCafe: the create request succeeded; reload the list
createCafeReload(i) ==
  /\ IsCall(i, {"createCafe"})
  /\ Succeeded(i, "createCafe")
  /\ "listCafes" \notin DOMAIN calls[i].reqs
  /\ Issue(i, {"listCafes"})
  /\ UNCHANGED <<cafeStore, menuStore, srvCafes, srvMenus, srvCreated>>

\* createCafe: the list arrived (.then), or one of the two requests failed (catch)
createCafeDone(i) ==
  /\ IsCall(i, {"createCafe"})
  /\ \/ /\ Succeeded(i, "listCafes")
        /\ cafeStore' = patchState(cafeStore,
                           [cafes |-> Body(i, "listCafes").cafes, loading |-> FALSE])
        /\ Return(i, Body(i, "createCafe").cafeId)
     \/ CafeCatch(i, "Failed to create cafe", NULL)
  /\ UNCHANGED <<menuStore, srvCafes, srvMenus, srvCreated>>

\* deleteCafe(cafeId): the call up to its await
deleteCafe(cafeId) ==
  /\ cafeStore' = patchState(cafeStore, [loading |-> TRUE, error |-> NULL])
  /\ Begin("deleteCafe", [cafeId |-> cafeId], "deleteCafe")
  /\ UNCHANGED <<menuStore, srvCafes, srvMenus, srvCreated>>

\* A variant of deleteCafeDone that stores the backend's current list instead
\* of filtering the local collection.
deleteCafeDoneTakesServerList(i) ==
  /\ IsCall(i, {"deleteCafe"})
  /\ \/ /\ Succeeded(i, "deleteCafe")
        /\ cafeStore' = patchState(cafeStore,
             [cafes |-> srvCafes,
              selectedCafe |-> IF cafeStore.selectedCafe.id = calls[i].args.cafeId
                                 THEN NullCafe ELSE cafeStore.selectedCafe,
              loading |-> FALSE])
        /\ Return(i, TRUE_)
     \/ CafeCatch(i, "Failed to delete cafe", FALSE_)
  /\ UNCHANGED <<menuStore, srvCafes, srvMenus, srvCreated>>

\* deleteCafe(cafeId): after the await
deleteCafeDone(i) ==
  /\ IsCall(i, {"deleteCafe"})
  /\ \/ /\ Succeeded(i, "deleteCafe")
        /\ cafeStore' = patchState(cafeStore,
             [cafes |-> SelectSeq(cafeStore.cafes, LAMBDA c : c.id # calls[i].args.cafeId),
              selectedCafe |-> IF cafeStore.selectedCafe.id = calls[i].args.cafeId
                                 THEN NullCafe ELSE cafeStore.selectedCafe,
              loading |-> FALSE])
        /\ Return(i, TRUE_)
     \/ CafeCatch(i, "Failed to delete cafe", FALSE_)
  /\ UNCHANGED <<menuStore, srvCafes, srvMenus, srvCreated>>

\* clearSelectedCafe()
clearSelectedCafe ==
  /\ cafeStore' = patchState(cafeStore, [selectedCafe |-> NullCafe])
  /\ UNCHANGED <<menuStore, srvCafes, srvMenus, srvCreated, calls, started, returned>>
  /\ UNCHANGED <<view, outside>>

(***************************************************************************)
(* MenuStore                                                               *)
(***************************************************************************)
MenuInitialState ==
  [menus |-> <<>>, selectedMenu |-> NullMenu, activeMenu |-> NullMenu,
   currentCafeId |-> NULL, loading |-> FALSE, error |-> NULL]

\* withComputed
menuCount == Len(menuStore.menus)
hasMenus == Len(menuStore.menus) > 0
draftMenus == SelectSeq(menuStore.menus, LAMBDA m : m.state = Draft)
publishedMenus == SelectSeq(menuStore.menus, LAMBDA m : m.state = Published)
\* A variant of activeMenus that keeps every menu that is no draft.
activeMenusNotDraft == SelectSeq(menuStore.menus, LAMBDA m : m.state # Draft)

activeMenus == SelectSeq(menuStore.menus, LAMBDA m : m.state = Active)

\* A variant of the catch block that stores the menu a reload request has
\* delivered before another request of the call was rejected.
MenuCatchStoresArrived(i, fallback, value) ==
  /\ Fails(i)
  /\ \E error \in Failures :
       /\ menuStore' = patchState(menuStore,
                          [error |-> errorMessage(error, fallback), loading |-> FALSE,
                           selectedMenu |->
                             IF "getMenu" \in DOMAIN calls[i].reqs /\ Succeeded(i, "getMenu")
                               THEN Body(i, "getMenu") ELSE menuStore.selectedMenu])
       /\ ReturnCaught(i, value, error)

\* The catch block of a MenuStore method (all but loadActiveMenu) whose awaited
\* request was rejected with `error'.
MenuCatch(i, fallback, value) ==
  /\ Fails(i)
  /\ \E error \in Failures :
       /\ menuStore' = patchState(menuStore,
                          [error |-> errorMessage(error, fallback), loading |-> FALSE])
       /\ ReturnCaught(i, value, error)

\* loadMenus(cafeId): the call up to its await
loadMenus(cafeId) ==
  /\ menuStore' = patchState(menuStore,
                     [loading |-> TRUE, error |-> NULL, currentCafeId |-> cafeId])
  /\ Begin("loadMenus", [cafeId |-> cafeId], "listMenus")
  /\ UNCHANGED <<cafeStore, srvCafes, srvMenus, srvCreated>>

\* loadMenus(cafeId): after the await
loadMenusDone(i) ==
  /\ IsCall(i, {"loadMenus"})
  /\ \/ /\ Succeeded(i, "listMenus")
        /\ menuStore' = patchState(menuStore,
                           [menus |-> Body(i, "listMenus").menus, loading |-> FALSE])
        /\ Return(i, UNDEFINED)
     \/ MenuCatch(i, "Failed to load menus", UNDEFINED)
  /\ UNCHANGED <<cafeStore, srvCafes, srvMenus, srvCreated>>

\* selectMenu(cafeId, menuId): the call up to its await
selectMenuBy(caller, ref) ==
  /\ menuStore' = patchState(menuStore, [loading |-> TRUE, error |-> NULL])
  /\ BeginBy(caller, "selectMenu", ref, "getMenu")
  /\ UNCHANGED <<cafeStore, srvCafes, srvMenus, srvCreated>>

selectMenu(ref) ==
  /\ selectMenuBy(NULL, ref)
  /\ UNCHANGED view

\* loadMenu(cafeId, menuId): awaits this.selectMenu(cafeId, menuId)
loadMenuBy(caller, ref) ==
  /\ menuStore' = patchState(menuStore, [loading |-> TRUE, error |-> NULL])
  /\ BeginBy(caller, "loadMenu", ref, "getMenu")
  /\ UNCHANGED <<cafeStore, srvCafes, srvMenus, srvCreated>>

loadMenu(ref) ==
  /\ loadMenuBy(NULL, ref)
  /\ UNCHANGED view

\* selectMenu(cafeId, menuId): after the await (and with it loadMenu's await)
selectMenuDone(i) ==
  /\ IsCall(i, {"selectMenu", "loadMenu"})
  /\ \/ /\ Succeeded(i, "getMenu")
        /\ menuStore' = patchState(menuStore,
                           [selectedMenu |-> Body(i, "getMenu"), loading |-> FALSE])
        /\ Return(i, UNDEFINED)
     \/ MenuCatch(i, "Failed to load menu", UNDEFINED)
  /\ UNCHANGED <<cafeStore, srvCafes, srvMenus, srvCreated>>

\* loadActiveMenu(cafeId): the call up to its await
loadActiveMenu(cafeId) ==
  /\ menuStore' = patchState(menuStore, [loading |-> TRUE, error |-> NULL])
  /\ Begin("loadActiveMenu", [cafeId |-> cafeId], "getActiveMenu")
  /\ UNCHANGED <<cafeStore, srvCafes, srvMenus, srvCreated>>

\* loadActiveMenu(cafeId): after the await; its catch block sets no error
loadActiveMenuDone(i) ==
  /\ IsCall(i, {"loadActiveMenu"})
  /\ \/ /\ Succeeded(i, "getActiveMenu")
        /\ menuStore' = patchState(menuStore,
                           [activeMenu |-> Body(i, "getActiveMenu"), loading |-> FALSE])
        /\ Return(i, UNDEFINED)
     \/ /\ Fails(i)
        /\ menuStore' = patchState(menuStore,
                           [activeMenu |-> NullMenu, loading |-> FALSE])
        /\ \E error \in Failures : ReturnCaught(i, UNDEFINED, error)
  /\ UNCHANGED <<cafeStore, srvCafes, srvMenus, srvCreated>>

\* createMenu(cafeId, request): the call up to its first await
createMenuBy(caller, cafeId, request) ==
  /\ menuStore' = patchState(menuStore, [loading |-> TRUE, error |-> NULL])
  /\ BeginBy(caller, "createMenu", [cafeId |-> cafeId, request |-> request], "createMenu")
  /\ UNCHANGED <<cafeStore, srvCafes, srvMenus, srvCreated>>

createMenu(cafeId, request) ==
  /\ createMenuBy(NULL, cafeId, request)
  /\ UNCHANGED view

\* createMenu: the create request succeeded; reload the list
createMenuReload(i) ==
  /\ IsCall(i, {"createMenu"})
  /\ Succeeded(i, "createMenu")
  /\ "listMenus" \notin DOMAIN calls[i].reqs
  /\ Issue(i, {"listMenus"})
  /\ UNCHANGED <<cafeStore, menuStore, srvCafes, srvMenus, srvCreated>>

\* A variant of createMenuDone whose catch block returns the id of the created
\* menu when the request that failed is the reload of the list.
createMenuDoneTellsCreation(i) ==
  /\ IsCall(i, {"createMenu"})
  /\ \/ /\ Succeeded(i, "listMenus")
        /\ menuStore' = patchState(menuStore,
                           [menus |-> Body(i, "listMenus").menus, loading |-> FALSE])
        /\ Return(i, Body(i, "createMenu").menuId)
     \/ MenuCatch(i, "Failed to create menu",
                  IF Succeeded(i, "createMenu") THEN Body(i, "createMenu").menuId ELSE NULL)
  /\ UNCHANGED <<cafeStore, srvCafes, srvMenus, srvCreated>>

\* createMenu: the list arrived, or one of the two requests failed
createMenuDone(i) ==
  /\ IsCall(i, {"createMenu"})
  /\ \/ /\ Succeeded(i, "listMenus")
        /\ menuStore' = patchState(menuStore,
                           [menus |-> Body(i, "listMenus").menus, loading |-> FALSE])
        /\ Return(i, Body(i, "createMenu").menuId)
     \/ MenuCatch(i, "Failed to create menu", NULL)
  /\ UNCHANGED <<cafeStore, srvCafes, srvMenus, srvCreated>>

\* updateMenu(cafeId, menuId, request): the call up to its first await
updateMenuBy(caller, ref, request) ==
  /\ menuStore' = patchState(menuStore, [loading |-> TRUE, error |-> NULL])
  /\ BeginBy(caller, "updateMenu",
              [cafeId |-> ref.cafeId, menuId |-> ref.menuId, request |-> request],
              "updateMenu")
  /\ UNCHANGED <<cafeStore, srvCafes, srvMenus, srvCreated>>

updateMenu(ref, request) ==
  /\ updateMenuBy(NULL, ref, request)
  /\ UNCHANGED view

\* updateMenu: the update succeeded; reload the menu and the list
updateMenuReload(i) ==
  /\ IsCall(i, {"updateMenu"})
  /\ Succeeded(i, "updateMenu")
  /\ "listMenus" \notin DOMAIN calls[i].reqs
  /\ Issue(i, {"getMenu", "listMenus"})
  /\ UNCHANGED <<cafeStore, menuStore, srvCafes, srvMenus, srvCreated>>

\* updateMenu: both reloads arrived, or a request failed
updateMenuDone(i) ==
  /\ IsCall(i, {"updateMenu"})
  /\ \/ /\ Succeeded(i, "getMenu")
        /\ Succeeded(i, "listMenus")
        /\ menuStore' = patchState(menuStore,
                           [selectedMenu |-> Body(i, "getMenu"),
                            menus |-> Body(i, "listMenus").menus,
                            loading |-> FALSE])
        /\ Return(i, TRUE_)
     \/ MenuCatch(i, "Failed to update menu", FALSE_)
  /\ UNCHANGED <<cafeStore, srvCafes, srvMenus, srvCreated>>

\* deleteMenu(cafeId, menuId): the call up to its await
deleteMenu(ref) ==
  /\ menuStore' = patchState(menuStore, [loading |-> TRUE, error |-> NULL])
  /\ Begin("deleteMenu", ref, "deleteMenu")
  /\ UNCHANGED <<cafeStore, srvCafes, srvMenus, srvCreated>>

\* A variant of deleteMenuDone that compares m.id, a field the summaries do
\* not have, so that the filter keeps every menu.
deleteMenuDoneFiltersById(i) ==
  /\ IsCall(i, {"deleteMenu"})
  /\ \/ /\ Succeeded(i, "deleteMenu")
        /\ menuStore' = patchState(menuStore,
             [menus |-> SelectSeq(menuStore.menus, LAMBDA m : UNDEFINED # calls[i].args.menuId),
              selectedMenu |-> IF menuStore.selectedMenu.id = calls[i].args.menuId
                                 THEN NullMenu ELSE menuStore.selectedMenu,
              loading |-> FALSE])
        /\ Return(i, TRUE_)
     \/ MenuCatch(i, "Failed to delete menu", FALSE_)
  /\ UNCHANGED <<cafeStore, srvCafes, srvMenus, srvCreated>>

\* deleteMenu(cafeId, menuId): after the await
deleteMenuDone(i) ==
  /\ IsCall(i, {"deleteMenu"})
  /\ \/ /\ Succeeded(i, "deleteMenu")
        /\ menuStore' = patchState(menuStore,
             [menus |-> SelectSeq(menuStore.menus, LAMBDA m : m.menuId # calls[i].args.menuId),
              selectedMenu |-> IF menuStore.selectedMenu.id = calls[i].args.menuId
                                 THEN NullMenu ELSE menuStore.selectedMenu,
              loading |-> FALSE])
        /\ Return(i, TRUE_)
     \/ MenuCatch(i, "Failed to delete menu", FALSE_)
  /\ UNCHANGED <<cafeStore, srvCafes, srvMenus, srvCreated>>

\* cloneMenu(cafeId, menuId, newName): the call up to its first await
cloneMenu(ref, newName) ==
  /\ menuStore' = patchState(menuStore, [loading |-> TRUE, error |-> NULL])
  /\ Begin("cloneMenu",
            [cafeId |-> ref.cafeId, menuId |-> ref.menuId, newName |-> newName],
            "cloneMenu")
  /\ UNCHANGED <<cafeStore, srvCafes, srvMenus, srvCreated>>

\* cloneMenu: the clone request succeeded; reload the list
cloneMenuReload(i) ==
  /\ IsCall(i, {"cloneMenu"})
  /\ Succeeded(i, "cloneMenu")
  /\ "listMenus" \notin DOMAIN calls[i].reqs
  /\ Issue(i, {"listMenus"})
  /\ UNCHANGED <<cafeStore, menuStore, srvCafes, srvMenus, srvCreated>>

\* cloneMenu: the list arrived, or one of the two requests failed
cloneMenuDone(i) ==
  /\ IsCall(i, {"cloneMenu"})
  /\ \/ /\ Succeeded(i, "listMenus")
        /\ menuStore' = patchState(menuStore,
                           [menus |-> Body(i, "listMenus").menus, loading |-> FALSE])
        /\ Return(i, Body(i, "cloneMenu").menuId)
     \/ MenuCatch(i, "Failed to clone menu", NULL)
  /\ UNCHANGED <<cafeStore, srvCafes, srvMenus, srvCreated>>

\* publishMenu(cafeId, menuId): the call up to its first await
publishMenu(ref) ==
  /\ menuStore' = patchState(menuStore, [loading |-> TRUE, error |-> NULL])
  /\ Begin("publishMenu", ref, "publishMenu")
  /\ UNCHANGED <<cafeStore, srvCafes, srvMenus, srvCreated>>

\* publishMenu: the publish request succeeded; reload the menu and the list
publishMenuReload(i) ==
  /\ IsCall(i, {"publishMenu"})
  /\ Succeeded(i, "publishMenu")
  /\ "listMenus" \notin DOMAIN calls[i].reqs
  /\ Issue(i, {"getMenu", "listMenus"})
  /\ UNCHANGED <<cafeStore, menuStore, srvCafes, srvMenus, srvCreated>>

\* publishMenu: both reloads arrived, or a request failed
publishMenuDone(i) ==
  /\ IsCall(i, {"publishMenu"})
  /\ \/ /\ Succeeded(i, "getMenu")
        /\ Succeeded(i, "listMenus")
        /\ menuStore' = patchState(menuStore,
                           [selectedMenu |-> Body(i, "getMenu"),
                            menus |-> Body(i, "listMenus").menus,
                            loading |-> FALSE])
        /\ Return(i, TRUE_)
     \/ MenuCatch(i, "Failed to publish menu", FALSE_)
  /\ UNCHANGED <<cafeStore, srvCafes, srvMenus, srvCreated>>

\* activateMenu(cafeId, menuId): the call up to its first await
activateMenu(ref) ==
  /\ menuStore' = patchState(menuStore, [loading |-> TRUE, error |-> NULL])
  /\ Begin("activateMenu", ref, "activateMenu")
  /\ UNCHANGED <<cafeStore, srvCafes, srvMenus, srvCreated>>

\* activateMenu: the activation succeeded; reload the menu, the active menu
\* and the list
activateMenuReload(i) ==
  /\ IsCall(i, {"activateMenu"})
  /\ Succeeded(i, "activateMenu")
  /\ "listMenus" \notin DOMAIN calls[i].reqs
  /\ Issue(i, {"getMenu", "getActiveMenu", "listMenus"})
  /\ UNCHANGED <<cafeStore, menuStore, srvCafes, srvMenus, srvCreated>>

\* A variant of activateMenuDone that marks the activated menu in the local
\* collection instead of storing the list it received.
activateMenuDoneMarksLocally(i) ==
  /\ IsCall(i, {"activateMenu"})
  /\ \/ /\ Succeeded(i, "getMenu")
        /\ Succeeded(i, "getActiveMenu")
        /\ Succeeded(i, "listMenus")
        /\ menuStore' = patchState(menuStore,
             [selectedMenu |-> Body(i, "getMenu"),
              activeMenu |-> Body(i, "getActiveMenu"),
              menus |-> [k \in DOMAIN menuStore.menus |->
                           IF menuStore.menus[k].menuId = calls[i].args.menuId
                             THEN [menuStore.menus[k] EXCEPT !.state = Active]
                             ELSE menuStore.menus[k]],
              loading |-> FALSE])
        /\ Return(i, TRUE_)
     \/ MenuCatch(i, "Failed to activate menu", FALSE_)
  /\ UNCHANGED <<cafeStore, srvCafes, srvMenus, srvCreated>>

\* activateMenu: the three reloads arrived, or a request failed
activateMenuDone(i) ==
  /\ IsCall(i, {"activateMenu"})
  /\ \/ /\ Succeeded(i, "getMenu")
        /\ Succeeded(i, "getActiveMenu")
        /\ Succeeded(i, "listMenus")
        /\ menuStore' = patchState(menuStore,
                           [selectedMenu |-> Body(i, "getMenu"),
                            activeMenu |-> Body(i, "getActiveMenu"),
                            menus |-> Body(i, "listMenus").menus,
                            loading |-> FALSE])
        /\ Return(i, TRUE_)
     \/ MenuCatch(i, "Failed to activate menu", FALSE_)
  /\ UNCHANGED <<cafeStore, srvCafes, srvMenus, srvCreated>>

\* clearSelectedMenu()
clearSelectedMenu ==
  /\ menuStore' = patchState(menuStore, [selectedMenu |-> NullMenu])
  /\ UNCHANGED <<cafeStore, srvCafes, srvMenus, srvCreated, calls, started, returned>>
  /\ UNCHANGED <<view, outside>>

\* clearMenus()
clearMenus ==
  /\ menuStore' = patchState(menuStore, MenuInitialState)
  /\ UNCHANGED <<cafeStore, srvCafes, srvMenus, srvCreated, calls, started, returned>>
  /\ UNCHANGED <<view, outside>>

(***************************************************************************)
(* MenuFormPageComponent                                                   *)
(***************************************************************************)
storeVars ==
  <<cafeStore, menuStore, srvCafes, srvMenus, srvCreated, calls, started, returned>>

\* A text that exceeds the maxLength of the control it is typed into.
TooLong == "(a text longer than maxLength)"

\* What a user types into the name of a menu, of a section and of an item.
NameInputs == {"", "Brunch", TooLong}
SectionNameInputs == {"Starters"}
ItemNameInputs == {"Soup", "Bread"}

\* The component as constructed for the route /cafes/c1/menus/new (menuId
\* null) or /cafes/c1/menus/:menuId/edit; its effect has not run yet.
\* `touched' records markAllAsTouched(), `navigated' the route navigated to,
\* `submits' counts the invocations of onSubmit.
PageView(menuId) ==
  [component |-> Page, cafeId |-> "c1", menuId |-> menuId, effectRun |-> FALSE,
   isSubmitting |-> FALSE, name |-> "", sections |-> <<>>,
   value |-> FormValue("", <<>>), touched |-> FALSE, navigated |-> NoRoute, submits |-> 0]

\* this.menuForm.invalid: Validators.required and Validators.maxLength on the
\* names, as of the last update of the form's value and validity.
PageInvalid(v) ==
  \/ v.value.name \in {"", TooLong}
  \/ \E k \in DOMAIN v.value.sections :
       \/ v.value.sections[k].name = ""
       \/ \E n \in DOMAIN v.value.sections[k].items :
            v.value.sections[k].items[n].name = ""

\* The component is on screen and its effect has run: it takes user events.
PageAlive == view.component = Page /\ view.effectRun /\ view.navigated = NoRoute

\* Number of item groups in the form.
RECURSIVE CountItems(_)
CountItems(sections) ==
  IF sections = <<>> THEN 0 ELSE Len(Head(sections).items) + CountItems(Tail(sections))

\* createSectionGroup(), createItemGroup()
createSectionGroup == [name |-> "", items |-> <<>>]
createItemGroup == [name |-> ""]

\* FormArray.removeAt(index)
removeAt(seq, index) == [k \in 1..(Len(seq) - 1) |-> IF k < index THEN seq[k] ELSE seq[k + 1]]

\* moveItemInArray(array, fromIndex, toIndex) of @angular/cdk/drag-drop
moveItemInArray(array, fromIndex, toIndex) ==
  [k \in DOMAIN array |->
     IF k = toIndex THEN array[fromIndex]
     ELSE IF fromIndex < toIndex /\ fromIndex <= k /\ k < toIndex THEN array[k + 1]
     ELSE IF toIndex < fromIndex /\ toIndex < k /\ k <= fromIndex THEN array[k - 1]
     ELSE array[k]]

\* const menuData = { name, sections: formValue.sections.map(...) }
menuData(formValue) ==
  [name |-> formValue.name,
   sections |-> [k \in DOMAIN formValue.sections |->
      [name |-> formValue.sections[k].name,
       items |-> [n \in DOMAIN formValue.sections[k].items |->
          [name |-> formValue.sections[k].items[n].name, image |-> NULL]]]]]

\* The effect of the constructor, edit mode: this.loadMenu(cafeId, menuId)
pageEffectLoad ==
  /\ view.component = Page
  /\ ~view.effectRun
  /\ view.menuId # NULL
  /\ view' = [view EXCEPT !.effectRun = TRUE]
  /\ loadMenuBy("loadMenu", [cafeId |-> view.cafeId, menuId |-> view.menuId])

\* The effect of the constructor, new menu: this.addSection()
pageEffectAddSection ==
  /\ view.component = Page
  /\ ~view.effectRun
  /\ view.menuId = NULL
  /\ view' = updateValueAndValidity(
               [view EXCEPT !.effectRun = TRUE,
                            !.sections = Append(@, createSectionGroup)])
  /\ UNCHANGED <<storeVars, outside>>

\* The user types into the name of the menu.
pageSetName(text) ==
  /\ PageAlive
  /\ view' = updateValueAndValidity([view EXCEPT !.name = text])
  /\ UNCHANGED <<storeVars, outside>>

\* The user types into the name of a section / of an item.
pageSetSectionName(index, text) ==
  /\ PageAlive
  /\ index \in DOMAIN view.sections
  /\ view' = updateValueAndValidity([view EXCEPT !.sections[index].name = text])
  /\ UNCHANGED <<storeVars, outside>>

pageSetItemName(sectionIndex, itemIndex, text) ==
  /\ PageAlive
  /\ sectionIndex \in DOMAIN view.sections
  /\ itemIndex \in DOMAIN view.sections[sectionIndex].items
  /\ view' = updateValueAndValidity(
               [view EXCEPT !.sections[sectionIndex].items[itemIndex].name = text])
  /\ UNCHANGED <<storeVars, outside>>

\* addSection()
addSection ==
  /\ PageAlive
  /\ Len(view.sections) < MaxSections
  /\ view' = updateValueAndValidity(
               [view EXCEPT !.sections = Append(@, createSectionGroup)])
  /\ UNCHANGED <<storeVars, outside>>

\* removeSection(index)
removeSection(index) ==
  /\ PageAlive
  /\ index \in DOMAIN view.sections
  /\ view' = updateValueAndValidity([view EXCEPT !.sections = removeAt(@, index)])
  /\ UNCHANGED <<storeVars, outside>>

\* addItem(sectionIndex)
addItem(sectionIndex) ==
  /\ PageAlive
  /\ sectionIndex \in DOMAIN view.sections
  /\ CountItems(view.sections) < MaxItems
  /\ view' = updateValueAndValidity(
               [view EXCEPT !.sections[sectionIndex].items = Append(@, createItemGroup)])
  /\ UNCHANGED <<storeVars, outside>>

\* removeItem(sectionIndex, itemIndex)
removeItem(sectionIndex, itemIndex) ==
  /\ PageAlive
  /\ sectionIndex \in DOMAIN view.sections
  /\ itemIndex \in DOMAIN view.sections[sectionIndex].items
  /\ view' = updateValueAndValidity(
               [view EXCEPT !.sections[sectionIndex].items = removeAt(@, itemIndex)])
  /\ UNCHANGED <<storeVars, outside>>

\* A dropSection that moves the control and leaves the value of the form as
\* it was computed last.
dropSectionStale(previousIndex, currentIndex) ==
  /\ PageAlive
  /\ previousIndex \in DOMAIN view.sections
  /\ currentIndex \in DOMAIN view.sections
  /\ view' = [view EXCEPT !.sections = moveItemInArray(@, previousIndex, currentIndex)]
  /\ UNCHANGED <<storeVars, outside>>

\* dropSection(event): a section is dragged from previousIndex to currentIndex
dropSection(previousIndex, currentIndex) ==
  /\ PageAlive
  /\ previousIndex \in DOMAIN view.sections
  /\ currentIndex \in DOMAIN view.sections
  /\ view' = updateValueAndValidity(
               [view EXCEPT !.sections = moveItemInArray(@, previousIndex, currentIndex)])
  /\ UNCHANGED <<storeVars, outside>>

\* dropItem(event, sectionIndex)
dropItem(sectionIndex, previousIndex, currentIndex) ==
  /\ PageAlive
  /\ sectionIndex \in DOMAIN view.sections
  /\ previousIndex \in DOMAIN view.sections[sectionIndex].items
  /\ currentIndex \in DOMAIN view.sections[sectionIndex].items
  /\ view' = updateValueAndValidity(
               [view EXCEPT !.sections[sectionIndex].items =
                              moveItemInArray(@, previousIndex, currentIndex)])
  /\ UNCHANGED <<storeVars, outside>>

\* onSubmit(): the form is invalid, or a submit is under way
pageSubmitRejected ==
  /\ PageInvalid(view) \/ view.isSubmitting
  /\ view' = [view EXCEPT !.touched = TRUE, !.submits = @ + 1]
  /\ UNCHANGED <<storeVars, outside>>

\* A variant of pageSubmitCreate that does not look at isSubmitting.
pageSubmitCreateUnguarded ==
  /\ ~PageInvalid(view)
  /\ view.menuId = NULL
  /\ view' = [view EXCEPT !.isSubmitting = TRUE, !.submits = @ + 1]
  /\ createMenuBy("onSubmit", view.cafeId, menuData(view.value))

\* onSubmit() of a new menu, up to `await this.menuStore.createMenu(...)'
pageSubmitCreate ==
  /\ ~(PageInvalid(view) \/ view.isSubmitting)
  /\ view.menuId = NULL
  /\ view' = [view EXCEPT !.isSubmitting = TRUE, !.submits = @ + 1]
  /\ createMenuBy("onSubmit", view.cafeId, menuData(view.value))

\* onSubmit() in edit mode, up to `await this.menuStore.updateMenu(...)'
pageSubmitUpdate ==
  /\ ~(PageInvalid(view) \/ view.isSubmitting)
  /\ view.menuId # NULL
  /\ view' = [view EXCEPT !.isSubmitting = TRUE, !.submits = @ + 1]
  /\ updateMenuBy("onSubmit", [cafeId |-> view.cafeId, menuId |-> view.menuId],
                  menuData(view.value))

pageOnSubmit ==
  /\ PageAlive
  /\ view.submits < MaxSubmits
  /\ \/ pageSubmitRejected
     \/ pageSubmitCreate
     \/ pageSubmitUpdate

\* onCancel()
pageOnCancel ==
  /\ PageAlive
  /\ view' = [view EXCEPT !.navigated = MenuListUrl(view.cafeId)]
  /\ UNCHANGED <<storeVars, outside>>

(***************************************************************************)
(* MenuFormComponent                                                       *)
(***************************************************************************)
FormView(menuId) ==
  [component |-> Form, cafeId |-> "c1", menuId |-> menuId, effectRun |-> FALSE,
   isEditMode |-> FALSE, name |-> "", touched |-> FALSE, navigated |-> NoRoute,
   submits |-> 0]

\* A form that validates the name with Validators.required alone.
FormInvalidRequiredOnly(v) == v.name = ""

\* this.form.invalid: Validators.required, Validators.maxLength(100)
FormInvalid(v) == v.name \in {"", TooLong}

FormAlive == view.component = Form /\ view.effectRun /\ view.navigated = NoRoute

\* The effect of the constructor with a menuId: edit mode, this.loadMenu(...)
formEffectLoad ==
  /\ view.component = Form
  /\ ~view.effectRun
  /\ view.menuId # NULL
  /\ view' = [view EXCEPT !.effectRun = TRUE, !.isEditMode = TRUE]
  /\ selectMenuBy("loadMenu", [cafeId |-> view.cafeId, menuId |-> view.menuId])

\* The effect of the constructor without a menuId
formEffectNew ==
  /\ view.component = Form
  /\ ~view.effectRun
  /\ view.menuId = NULL
  /\ view' = [view EXCEPT !.effectRun = TRUE, !.isEditMode = FALSE]
  /\ UNCHANGED <<storeVars, outside>>

\* The user types into the name.
formSetName(text) ==
  /\ FormAlive
  /\ view' = [view EXCEPT !.name = text]
  /\ UNCHANGED <<storeVars, outside>>

\* onSubmit(): the form is invalid
formSubmitRejected ==
  /\ FormInvalid(view)
  /\ view' = [view EXCEPT !.touched = TRUE, !.submits = @ + 1]
  /\ UNCHANGED <<storeVars, outside>>

\* onSubmit() of a new menu, up to `await this.menuStore.createMenu(...)'
formSubmitCreate ==
  /\ ~FormInvalid(view)
  /\ ~view.isEditMode
  /\ view' = [view EXCEPT !.submits = @ + 1]
  /\ createMenuBy("onSubmit", view.cafeId, [name |-> view.name, sections |-> <<>>])

\* onSubmit() in edit mode, up to `await this.menuStore.updateMenu(...)'
formSubmitUpdate ==
  /\ ~FormInvalid(view)
  /\ view.isEditMode
  /\ view' = [view EXCEPT !.submits = @ + 1]
  /\ updateMenuBy("onSubmit", [cafeId |-> view.cafeId, menuId |-> view.menuId],
                  [name |-> view.name, sections |-> <<>>])

formOnSubmit ==
  /\ FormAlive
  /\ view.submits < MaxSubmits
  /\ \/ formSubmitRejected
     \/ formSubmitCreate
     \/ formSubmitUpdate

\* onCancel()
formOnCancel ==
  /\ FormAlive
  /\ view' = [view EXCEPT !.navigated = MenuListUrl(view.cafeId)]
  /\ UNCHANGED <<storeVars, outside>>

(***************************************************************************)
(* CafeFormDialogComponent                                                 *)
(***************************************************************************)
ContactInputs == {"", "new@cafe.com", TooLong}

\* `closed' and `result' record dialogRef.close(result).
DialogView ==
  [component |-> Dialog, name |-> "", contactInfo |-> "", closed |-> FALSE,
   result |-> NULL, submits |-> 0]

\* this.cafeForm.valid: name required and maxLength(100), contactInfo maxLength(500)
DialogValid(v) == v.name \notin {"", TooLong} /\ v.contactInfo # TooLong

DialogAlive == view.component = Dialog /\ ~view.closed

\* The user types into the name / the contact info.
dialogSetName(text) ==
  /\ DialogAlive
  /\ view' = [view EXCEPT !.name = text]
  /\ UNCHANGED <<storeVars, outside>>

dialogSetContactInfo(text) ==
  /\ DialogAlive
  /\ view' = [view EXCEPT !.contactInfo = text]
  /\ UNCHANGED <<storeVars, outside>>

\* onSubmit(): the form is not valid
dialogSubmitRejected ==
  /\ ~DialogValid(view)
  /\ view' = [view EXCEPT !.submits = @ + 1]
  /\ UNCHANGED <<storeVars, outside>>

\* onSubmit(), up to `await this.cafeStore.createCafe(...)'
dialogSubmitCreate ==
  /\ DialogValid(view)
  /\ view' = [view EXCEPT !.submits = @ + 1]
  /\ createCafeBy("onSubmit",
                  [name |-> view.name,
                   contactInfo |-> IF view.contactInfo = "" THEN NULL
                                   ELSE view.contactInfo])

dialogOnSubmit ==
  /\ DialogAlive
  /\ view.submits < MaxSubmits
  /\ \/ dialogSubmitRejected
     \/ dialogSubmitCreate

\* onCancel()
dialogOnCancel ==
  /\ DialogAlive
  /\ view' = [view EXCEPT !.closed = TRUE]
  /\ UNCHANGED <<storeVars, outside>>

(***************************************************************************)
(* Specification                                                           *)
(***************************************************************************)
CallIds == 1..MaxCalls

NothingReturned ==
  [id |-> 0, kind |-> NULL, args |-> [none |-> NULL], settled |-> NULL, value |-> NULL,
   rejection |-> NoFailure,
   before |-> [id |-> 0, kind |-> NULL, args |-> [none |-> NULL], rejection |-> NoFailure]]

\* The stores as constructed, in front of a backend that holds the initial data.
InitStores ==
  /\ cafeStore = CafeInitialState
  /\ menuStore = MenuInitialState
  /\ srvCafes = InitialCafes
  /\ srvMenus = InitialMenus
  /\ srvCreated = [cafes |-> 0, menus |-> 0]
  /\ calls = <<>>
  /\ started = 0
  /\ returned = NothingReturned

Init ==
  /\ InitStores
  /\ view = NoView
  /\ http = NoRequest
  /\ fm = NoForm
  /\ loadingService = LoadingInitial

CafeStoreNext ==
  \/ loadCafes
  \/ \E cafeId \in CafeIdArgs : selectCafe(cafeId)
  \/ \E request \in CreateCafeRequests : createCafe(request)
  \/ \E cafeId \in CafeIdArgs : deleteCafe(cafeId)
  \/ clearSelectedCafe
  \/ \E i \in CallIds : loadCafesDone(i)
  \/ \E i \in CallIds : selectCafeDone(i)
  \/ \E i \in CallIds : createCafeReload(i)
  \/ \E i \in CallIds : createCafeDone(i)
  \/ \E i \in CallIds : deleteCafeDone(i)

CafeServerNext ==
  \/ \E i \in CallIds : ServerListCafes(i)
  \/ \E i \in CallIds : ServerGetCafe(i)
  \/ \E i \in CallIds : ServerCreateCafe(i)
  \/ \E i \in CallIds : ServerDeleteCafe(i)

MenuStoreNext ==
  \/ \E cafeId \in CafeIds : loadMenus(cafeId)
  \/ \E ref \in MenuRefs : selectMenu(ref)
  \/ \E ref \in MenuRefs : loadMenu(ref)
  \/ \E cafeId \in CafeIds : loadActiveMenu(cafeId)
  \/ \E cafeId \in CafeIds, request \in CreateMenuRequests : createMenu(cafeId, request)
  \/ \E ref \in MenuRefs, request \in UpdateMenuRequests : updateMenu(ref, request)
  \/ \E ref \in MenuRefs : deleteMenu(ref)
  \/ \E ref \in MenuRefs, newName \in CloneNames : cloneMenu(ref, newName)
  \/ \E ref \in MenuRefs : publishMenu(ref)
  \/ \E ref \in MenuRefs : activateMenu(ref)
  \/ clearSelectedMenu
  \/ clearMenus
  \/ \E i \in CallIds : loadMenusDone(i)
  \/ \E i \in CallIds : selectMenuDone(i)
  \/ \E i \in CallIds : loadActiveMenuDone(i)
  \/ \E i \in CallIds : createMenuReload(i)
  \/ \E i \in CallIds : createMenuDone(i)
  \/ \E i \in CallIds : updateMenuReload(i)
  \/ \E i \in CallIds : updateMenuDone(i)
  \/ \E i \in CallIds : deleteMenuDone(i)
  \/ \E i \in CallIds : cloneMenuReload(i)
  \/ \E i \in CallIds : cloneMenuDone(i)
  \/ \E i \in CallIds : publishMenuReload(i)
  \/ \E i \in CallIds : publishMenuDone(i)
  \/ \E i \in CallIds : activateMenuReload(i)
  \/ \E i \in CallIds : activateMenuDone(i)

MenuServerNext ==
  \/ \E i \in CallIds : ServerListMenus(i)
  \/ \E i \in CallIds : ServerGetMenu(i)
  \/ \E i \in CallIds : ServerGetActiveMenu(i)
  \/ \E i \in CallIds : ServerCreateMenu(i)
  \/ \E i \in CallIds : ServerUpdateMenu(i)
  \/ \E i \in CallIds : ServerDeleteMenu(i)
  \/ \E i \in CallIds : ServerCloneMenu(i)
  \/ \E i \in CallIds : ServerPublishMenu(i)
  \/ \E i \in CallIds : ServerActivateMenu(i)

Next == CafeStoreNext \/ CafeServerNext \/ MenuStoreNext \/ MenuServerNext

Spec == Init /\ [][Next]_vars

\* CafeStore alone, and MenuStore alone
CafeNext == CafeStoreNext \/ CafeServerNext
MenuNext == MenuStoreNext \/ MenuServerNext

SpecCafe == Init /\ [][CafeNext]_vars
SpecMenu == Init /\ [][MenuNext]_vars

(***************************************************************************)
(* The form components in front of the stores                              *)
(***************************************************************************)
\* One form component is mounted: the menu form page or the menu form, each
\* for a new menu or for the menu m2 of cafe c1, or the cafe dialog.
InitForms ==
  /\ InitStores
  /\ view \in {PageView(NULL), PageView("m2"), FormView(NULL), FormView("m2"), DialogView}
  /\ http = NoRequest
  /\ fm = NoForm
  /\ loadingService = LoadingInitial

\* What the stores and the backend do for the calls of the form components.
FormsStoreNext ==
  \/ \E i \in CallIds : selectMenuDone(i)
  \/ \E i \in CallIds : createMenuReload(i)
  \/ \E i \in CallIds : createMenuDone(i)
  \/ \E i \in CallIds : updateMenuReload(i)
  \/ \E i \in CallIds : updateMenuDone(i)
  \/ \E i \in CallIds : createCafeReload(i)
  \/ \E i \in CallIds : createCafeDone(i)
  \/ \E i \in CallIds : ServerListMenus(i)
  \/ \E i \in CallIds : ServerGetMenu(i)
  \/ \E i \in CallIds : ServerCreateMenu(i)
  \/ \E i \in CallIds : ServerUpdateMenu(i)
  \/ \E i \in CallIds : ServerListCafes(i)
  \/ \E i \in CallIds : ServerCreateCafe(i)

\* The three components with the menu form page reduced to its name and its
\* first section, next to a menu list that is loaded at any time.
FormsNext ==
  \/ pageEffectLoad
  \/ pageEffectAddSection
  \/ \E text \in NameInputs : pageSetName(text)
  \/ \E text \in SectionNameInputs : pageSetSectionName(1, text)
  \/ removeSection(1)
  \/ pageOnSubmit
  \/ pageOnCancel
  \/ formEffectLoad
  \/ formEffectNew
  \/ \E text \in NameInputs : formSetName(text)
  \/ formOnSubmit
  \/ formOnCancel
  \/ \E text \in NameInputs : dialogSetName(text)
  \/ \E text \in ContactInputs : dialogSetContactInfo(text)
  \/ dialogOnSubmit
  \/ dialogOnCancel
  \/ \E cafeId \in CafeIds : loadMenus(cafeId)
  \/ \E i \in CallIds : loadMenusDone(i)
  \/ FormsStoreNext

SpecForms == InitForms /\ [][FormsNext]_vars

\* The menu form page alone, with every way of editing its sections and items,
\* up to the call of the store that a save makes: the form is left alone while
\* a save is under way, and of the backend only the answer to the load of the
\* edited menu is part of it.
InitPage ==
  /\ InitStores
  /\ view \in {PageView(NULL), PageView("m2")}
  /\ http = NoRequest
  /\ fm = NoForm
  /\ loadingService = LoadingInitial

PageNext ==
  \/ pageEffectLoad
  \/ pageEffectAddSection
  \/ ~view.isSubmitting /\ \E text \in NameInputs : pageSetName(text)
  \/ ~view.isSubmitting /\ \E index \in 1..MaxSections, text \in SectionNameInputs :
       pageSetSectionName(index, text)
  \/ ~view.isSubmitting /\ \E sectionIndex \in 1..MaxSections, itemIndex \in 1..MaxItems,
        text \in ItemNameInputs : pageSetItemName(sectionIndex, itemIndex, text)
  \/ ~view.isSubmitting /\ addSection
  \/ ~view.isSubmitting /\ \E index \in 1..MaxSections : removeSection(index)
  \/ ~view.isSubmitting /\ \E sectionIndex \in 1..MaxSections : addItem(sectionIndex)
  \/ ~view.isSubmitting /\ \E sectionIndex \in 1..MaxSections, itemIndex \in 1..MaxItems :
       removeItem(sectionIndex, itemIndex)
  \/ ~view.isSubmitting /\ \E previousIndex, currentIndex \in 1..MaxSections :
       dropSection(previousIndex, currentIndex)
  \/ ~view.isSubmitting /\ \E sectionIndex \in 1..MaxSections, previousIndex, currentIndex \in 1..MaxItems :
       dropItem(sectionIndex, previousIndex, currentIndex)
  \/ pageOnSubmit
  \/ pageOnCancel
  \/ \E i \in CallIds : ServerGetMenu(i)
  \/ \E i \in CallIds : selectMenuDone(i)

SpecPage == InitPage /\ [][PageNext]_vars

(***************************************************************************)
(* HTTP interceptors.  A request passes retryInterceptor, then             *)
(* loadingInterceptor, then errorInterceptor, then goes to the backend; a  *)
(* failure comes back through errorInterceptor first.                      *)
(***************************************************************************)
\* const MAX_RETRIES = 2; const RETRY_DELAY_MS = 1000;
MAX_RETRIES == 2
RETRY_DELAY_MS == 1000

\* Requests made in one behaviour, and the time in ms at which the clock stops.
MaxRequests == 2
MaxNow == 10000

\* The URLs /api/cafes, /assets/i18n/en.json and /api/i18n by their segments.
Urls == {<<"api", "cafes">>, <<"assets", "i18n", "en.json">>, <<"api", "i18n">>}

\* A retryInterceptor that treats no URL as a translation file.
includesI18nNever(url) == FALSE

\* req.url.includes('/i18n/'): a segment i18n with a slash behind it
includesI18n(url) == \E k \in 1..(Len(url) - 1) : url[k] = "i18n"

\* HttpClient.get and HttpClient.post; the create requests of CafeApiService
\* and MenuApiService are POST requests.
Methods == {"GET", "POST"}

\* What the backend answers: a status, and for a 400 the type of its problem
\* details (1 is a validation error).
Responses ==
  {[status |-> s, type |-> 0] : s \in {0, 200, 404, 500}}
    \cup {[status |-> 400, type |-> 1]}

\* errorInterceptor: the message for a server-side error
snackBarMessage(error) ==
  CASE error.status = 400 -> "Invalid request. Please check your input."
    [] error.status = 404 -> "Resource not found."
    [] error.status = 409 -> "Conflict with existing data."
    [] error.status >= 500 -> "Server error. Please try again later."
    [] error.status = 0 -> "Network error. Please check your connection."
    [] OTHER -> "Unknown error"

\* errorInterceptor: this error of this URL was shown within the last 5 seconds
recentlyShown(h, error) ==
  \E key \in h.shownErrors :
    key.url = h.url /\ key.status = error.status /\ h.now - key.at < 5000

\* errorInterceptor, catchError: the snack bar opens unless the error was
\* shown recently; the error is thrown again in either case.
errorInterceptor(h, error) ==
  IF recentlyShown(h, error) THEN h
  ELSE [h EXCEPT !.opened = Append(@, snackBarMessage(error)),
                 !.shownErrors = @ \cup {[url |-> h.url, status |-> error.status,
                                         at |-> h.now]}]

\* The error reaches the caller of HttpClient.
propagate(h, error) ==
  [h EXCEPT !.phase = "idle", !.outcome = "error", !.error = error, !.doneAt = h.now]

\* A retry timer that does not grow with the number of the retry.
retryDelayConstant(retryCount) == RETRY_DELAY_MS

\* retryInterceptor, delay: timer(RETRY_DELAY_MS * retryCount)
retryDelay(retryCount) == RETRY_DELAY_MS * retryCount

\* retryInterceptor for an error that errorInterceptor has thrown again:
\* retry({count: MAX_RETRIES, delay}) of RxJS counts the error, and either
\* waits for the timer of `delay' or lets the error through.
retryInterceptor(h, error) ==
  IF includesI18n(h.url) THEN propagate(h, error)
  ELSE IF h.soFar < MAX_RETRIES
    THEN IF error.status = 0 \/ error.status >= 500
           THEN [h EXCEPT !.soFar = @ + 1, !.phase = "waiting",
                          !.delays = Append(@, retryDelay(h.soFar + 1)),
                          !.wakeAt = h.now + retryDelay(h.soFar + 1)]
           ELSE propagate([h EXCEPT !.soFar = @ + 1], error)
    ELSE propagate(h, error)

\* No request was made yet.  `sent' counts the times the current request went
\* to the backend, `statuses' lists the answers it got, `delays' the timers
\* retry waited for and `waited' the time that passed before each retry;
\* `opened' lists the snack bars opened for it.  `arrived' counts the times
\* the request reached the backend and `created' the entities the backend
\* created for it.
HttpIdle ==
  [phase |-> "idle", method |-> NULL, url |-> <<>>, requests |-> 0, sent |-> 0,
   arrived |-> 0, created |-> 0, soFar |-> 0,
   statuses |-> <<>>, delays |-> <<>>, waited |-> <<>>, wakeAt |-> 0, failedAt |-> 0,
   doneAt |-> 0, outcome |-> NULL, error |-> [status |-> 200, type |-> 0],
   opened |-> <<>>, shownErrors |-> {}, now |-> 0]

front == <<storeVars, view, fm, loadingService>>

\* HttpClient sends a request to url.
httpRequest(method, url) ==
  /\ http.phase = "idle"
  /\ http.requests < MaxRequests
  /\ http' = [HttpIdle EXCEPT !.phase = "sent", !.method = method, !.url = url,
                              !.requests = http.requests + 1, !.sent = 1,
                              !.shownErrors = http.shownErrors, !.now = http.now]
  /\ UNCHANGED front

\* The request reached the backend, which answered with this response; with
\* status 0 either the request or the answer to it was lost on the way.
Reached(response) == IF response.status = 0 THEN BOOLEAN ELSE {TRUE}

\* The backend handles a POST that reaches it by creating an entity, unless it
\* answers with a failure of its own.
Creates(h, response) == h.method = "POST" /\ response.status \in {0, 200}

\* The request gets its answer: that of the backend, or status 0.
httpResponse(response) ==
  /\ http.phase = "sent"
  /\ \E reached \in Reached(response) :
       LET h == [http EXCEPT !.statuses = Append(@, response.status),
                             !.failedAt = http.now,
                             !.arrived = IF reached THEN @ + 1 ELSE @,
                             !.created = IF reached /\ Creates(http, response)
                                           THEN @ + 1 ELSE @]
       IN http' = IF response.status = 200
                    THEN [h EXCEPT !.phase = "idle", !.outcome = "ok", !.doneAt = http.now]
                    ELSE retryInterceptor(errorInterceptor(h, response), response)
  /\ UNCHANGED front

\* The timer of retry fires: the request is sent again.
httpRetry ==
  /\ http.phase = "waiting"
  /\ http.now >= http.wakeAt
  /\ http' = [http EXCEPT !.phase = "sent", !.sent = @ + 1,
                          !.waited = Append(@, http.now - http.failedAt)]
  /\ UNCHANGED front

\* setTimeout(() => shownErrors.delete(errorKey), 10000)
httpForget(key) ==
  /\ key \in http.shownErrors
  /\ http.now >= key.at + 10000
  /\ http' = [http EXCEPT !.shownErrors = @ \ {key}]
  /\ UNCHANGED front

\* A second passes; timers that are due fire first, and the backend answers
\* within the second in which it is asked.
httpTick ==
  /\ http.phase \in {"idle", "waiting"}
  /\ http.now < MaxNow
  /\ ~(http.phase = "waiting" /\ http.now >= http.wakeAt)
  /\ \A key \in http.shownErrors : http.now < key.at + 10000
  /\ http' = [http EXCEPT !.now = @ + 1000]
  /\ UNCHANGED front

InitHttp ==
  /\ InitStores
  /\ view = NoView
  /\ http = HttpIdle
  /\ fm = NoForm
  /\ loadingService = LoadingInitial

HttpNext ==
  \/ \E method \in Methods, url \in Urls : httpRequest(method, url)
  \/ \E response \in Responses : httpResponse(response)
  \/ httpRetry
  \/ \E key \in http.shownErrors : httpForget(key)
  \/ httpTick

SpecHttp == InitHttp /\ [][HttpNext]_vars

(***************************************************************************)
(* FormErrorMapperService.  Texts that the service takes apart (field      *)
(* names and paths) are sequences of characters; a form is the tree of its *)
(* controls, given as a function from the path of a control (the names and *)
(* indexes that lead to it from the root) to the control.                  *)
(***************************************************************************)
\* Calls of applyToForm in one behaviour, and errors in one call.
MaxApplies == 1
MaxErrors == 2

UpperCase == <<"A", "B", "C", "D", "E", "F", "G", "H", "I", "J", "K", "L", "M", "N", "O", "P", "Q", "R", "S", "T", "U", "V", "W", "X", "Y", "Z">>
LowerCase == <<"a", "b", "c", "d", "e", "f", "g", "h", "i", "j", "k", "l", "m", "n", "o", "p", "q", "r", "s", "t", "u", "v", "w", "x", "y", "z">>
DigitChars == <<"0", "1", "2", "3", "4", "5", "6", "7", "8", "9">>

\* String.prototype.toLowerCase for one character
toLowerCase(c) ==
  IF \E k \in DOMAIN UpperCase : UpperCase[k] = c
    THEN LowerCase[CHOOSE k \in DOMAIN UpperCase : UpperCase[k] = c]
    ELSE c

IsDigit(c) == \E k \in DOMAIN DigitChars : DigitChars[k] = c
DigitValue(c) == (CHOOSE k \in DOMAIN DigitChars : DigitChars[k] = c) - 1

\* The number of digits that s starts with.
RECURSIVE LeadingDigits(_)
LeadingDigits(s) ==
  IF s # <<>> /\ IsDigit(Head(s)) THEN 1 + LeadingDigits(Tail(s)) ELSE 0

\* backendField.replace(/\[(\d+)\]/g, '.$1')
RECURSIVE withDotNotation(_)
withDotNotation(s) ==
  IF s = <<>> THEN <<>>
  ELSE LET n == LeadingDigits(Tail(s))
       IN IF Head(s) = "[" /\ n > 0 /\ Len(s) >= n + 2 /\ s[n + 2] = "]"
            THEN <<".">> \o SubSeq(s, 2, n + 1)
                   \o withDotNotation(SubSeq(s, n + 3, Len(s)))
            ELSE <<Head(s)>> \o withDotNotation(Tail(s))

\* toFormFieldName(backendField): withDotNotation.charAt(0).toLowerCase() +
\* withDotNotation.slice(1)
toFormFieldName(backendField) ==
  IF backendField = <<>> THEN <<>>
  ELSE LET dotted == withDotNotation(backendField)
       IN <<toLowerCase(Head(dotted))>> \o Tail(dotted)

\* path.split('.')
RECURSIVE split(_)
split(path) ==
  IF \E k \in DOMAIN path : path[k] = "."
    THEN LET k == CHOOSE j \in DOMAIN path :
                    path[j] = "." /\ \A i \in 1..(j - 1) : path[i] # "."
         IN <<SubSeq(path, 1, k - 1)>> \o split(SubSeq(path, k + 1, Len(path)))
    ELSE <<path>>

\* parseInt(part, 10) of a text without sign or blanks: the number its
\* leading digits spell, NaN if it starts with none.
NaN == -1
RECURSIVE DigitsValue(_)
DigitsValue(s) ==
  IF s = <<>> THEN 0 ELSE 10 * DigitsValue(SubSeq(s, 1, Len(s) - 1)) + DigitValue(s[Len(s)])

parseInt(part) ==
  IF LeadingDigits(part) = 0 THEN NaN ELSE DigitsValue(SubSeq(part, 1, LeadingDigits(part)))

\* The key of the control at index `index' of a FormArray.
RECURSIVE IndexKey(_)
IndexKey(index) ==
  IF index < 10 THEN <<DigitChars[index + 1]>>
  ELSE IndexKey(index \div 10) \o <<DigitChars[(index % 10) + 1]>>

\* null / undefined where a control is expected
NoControl == <<<<"?">>>>

\* FormGroup.get(name) for a name without dots: the child of that name or null
get(form, control, part) ==
  IF Append(control, part) \in DOMAIN form THEN Append(control, part) ELSE NoControl

\* FormArray.at that answers an index past the end with the first control.
atWrapped(form, control, index) ==
  IF index = NaN THEN NoControl
  ELSE IF Append(control, IndexKey(index)) \in DOMAIN form
    THEN Append(control, IndexKey(index))
  ELSE IF Append(control, IndexKey(0)) \in DOMAIN form
    THEN Append(control, IndexKey(0))
  ELSE NoControl

\* FormArray.at(index): this.controls[index]
at(form, control, index) ==
  IF index # NaN /\ Append(control, IndexKey(index)) \in DOMAIN form
    THEN Append(control, IndexKey(index))
    ELSE NoControl

\* getControl(form, path): the loop over path.split('.')
RECURSIVE walk(_, _, _)
walk(form, control, parts) ==
  IF parts = <<>> THEN control
  ELSE IF control = NoControl THEN NoControl
  ELSE IF form[control].kind = "group"
    THEN walk(form, get(form, control, Head(parts)), Tail(parts))
  ELSE IF form[control].kind = "array"
    THEN walk(form, at(form, control, parseInt(Head(parts))), Tail(parts))
  ELSE NoControl

getControl(form, path) == walk(form, <<>>, split(path))

\* The values of the entries of an errors object: true, a text, a list of texts.
True == [flag |-> TRUE]
Text(message) == [text |-> message]
List(messages) == [list |-> messages]

\* JavaScript truthiness of such a value: only the empty text is falsy.
truthy(value) == IF "text" \in DOMAIN value THEN value.text # "" ELSE TRUE

\* control.errors === null
NoErrors == [isNull |-> TRUE]

\* errors?.['backend'] is truthy
hasBackend(errors) ==
  errors # NoErrors /\ "backend" \in DOMAIN errors /\ truthy(errors["backend"])

\* clearFormErrors, for one control: delete errors['backend'];
\* setErrors(Object.keys(errors).length > 0 ? errors : null)
withoutBackend(errors) ==
  LET rest == [key \in DOMAIN errors \ {"backend"} |-> errors[key]]
  IN IF DOMAIN rest = {} THEN NoErrors ELSE rest

\* A clearFormErrors that sets the errors of such a control to null.
clearFormErrorsToNull(form) ==
  [control \in DOMAIN form |->
     IF hasBackend(form[control].errors)
       THEN [form[control] EXCEPT !.errors = NoErrors]
       ELSE form[control]]

\* clearFormErrors(form): the form, every nested group and array and every
\* other control are visited; an errors object with a backend entry that is
\* truthy loses the entry.
clearFormErrors(form) ==
  [control \in DOMAIN form |->
     IF hasBackend(form[control].errors)
       THEN [form[control] EXCEPT !.errors = withoutBackend(@)]
       ELSE form[control]]

\* The first i characters of a path lead to an ancestor of the control (or to
\* the control itself).
IsPrefix(p, q) == Len(p) <= Len(q) /\ SubSeq(q, 1, Len(p)) = p

\* control.setErrors(errors); control.markAsTouched(), which also marks the
\* ancestors of the control
setErrorsAndTouch(form, control, errors) ==
  [c \in DOMAIN form |->
     IF c = control THEN [form[c] EXCEPT !.errors = errors, !.touched = TRUE]
     ELSE IF IsPrefix(c, control) THEN [form[c] EXCEPT !.touched = TRUE]
     ELSE form[c]]

\* error.field is missing (or the empty text, which is as falsy)
NoField == <<>>

\* groupErrorsByField: the fields in the order in which they first occur ...
RECURSIVE groupedFields(_)
groupedFields(errors) ==
  IF errors = <<>> THEN <<>>
  ELSE LET before == groupedFields(SubSeq(errors, 1, Len(errors) - 1))
           field == errors[Len(errors)].field
       IN IF field = NoField \/ \E k \in DOMAIN before : before[k] = field
            THEN before
            ELSE Append(before, field)

\* ... and fieldErrors.map(e => e.message) of one field
RECURSIVE messagesOf(_, _)
messagesOf(errors, field) ==
  IF errors = <<>> THEN <<>>
  ELSE IF Head(errors).field = field
    THEN <<Head(errors).message>> \o messagesOf(Tail(errors), field)
    ELSE messagesOf(Tail(errors), field)

\* { backend: errorMessages.length === 1 ? errorMessages[0] : errorMessages }
backendErrors(messages) ==
  [backend |-> IF Len(messages) = 1 THEN Text(messages[1]) ELSE List(messages)]

\* applyToForm, the loop over Object.entries(errorsByField)
RECURSIVE applyFields(_, _, _)
applyFields(form, fields, errors) ==
  IF fields = <<>> THEN form
  ELSE LET control == getControl(form, toFormFieldName(Head(fields)))
           next == IF control # NoControl
                     THEN setErrorsAndTouch(form, control,
                                            backendErrors(messagesOf(errors, Head(fields))))
                     ELSE form
       IN applyFields(next, Tail(fields), errors)

\* applyToForm(form, errors)
applyToForm(form, errors) ==
  LET applied == applyFields(clearFormErrors(form), groupedFields(errors), errors)
      general == messagesOf(errors, NoField)
  IN IF Len(general) > 0
       THEN [applied EXCEPT ![<<>>].errors = [backend |-> List(general)]]
       ELSE applied

\* The names of the controls of the menu form, and the field names of the
\* server.
name_ == <<"n", "a", "m", "e">>
sections_ == <<"s", "e", "c", "t", "i", "o", "n", "s">>
items_ == <<"i", "t", "e", "m", "s">>

FieldName == <<"N", "a", "m", "e">>
FieldSections0 == <<"S", "e", "c", "t", "i", "o", "n", "s", "[", "0", "]">>
FieldSections5 == <<"S", "e", "c", "t", "i", "o", "n", "s", "[", "5", "]">>
FieldSections0Name == <<"S", "e", "c", "t", "i", "o", "n", "s", "[", "0", "]", ".", "N", "a", "m", "e">>
FieldSections1Name == <<"S", "e", "c", "t", "i", "o", "n", "s", "[", "1", "]", ".", "N", "a", "m", "e">>
FieldFoo == <<"F", "o", "o">>

ServerFields ==
  {NoField, FieldName, FieldSections0, FieldSections5, FieldSections0Name,
   FieldSections1Name, FieldFoo}

Messages == {"", "Name already exists"}

ValidationErrors == [field : ServerFields, message : Messages]

ErrorLists == UNION {[1..n -> ValidationErrors] : n \in 0..MaxErrors}

\* The paths of the controls of a menu form with `count' sections without
\* items.
MenuFormPaths(count) ==
  {<<>>, <<name_>>, <<sections_>>}
    \cup UNION {{<<sections_, IndexKey(k)>>, <<sections_, IndexKey(k), name_>>,
                 <<sections_, IndexKey(k), items_>>} : k \in 0..(count - 1)}

KindOf(path) ==
  IF path = <<>> THEN "group"
  ELSE IF path[Len(path)] \in {sections_, items_} THEN "array"
  ELSE IF path[Len(path)] = name_ THEN "control"
  ELSE "group"

\* The errors a control may carry when the mapper is called: none, those of a
\* validator, those of an earlier mapping, or both.
ControlErrors ==
  {NoErrors, [required |-> True], [backend |-> Text("Name already exists")],
   [backend |-> Text("")], [backend |-> List(<<"", "Name already exists">>)],
   [required |-> True, backend |-> Text("Name already exists")]}

GroupErrors == {NoErrors, [backend |-> List(<<"Name already exists">>)]}

Leaves(count) == {path \in MenuFormPaths(count) : KindOf(path) = "control"}

MenuForms(count) ==
  {[path \in MenuFormPaths(count) |->
      [kind |-> KindOf(path),
       errors |-> IF KindOf(path) = "control" THEN leaf[path]
                  ELSE IF path = <<>> THEN root ELSE NoErrors,
       touched |-> FALSE]] :
     leaf \in [Leaves(count) -> ControlErrors], root \in GroupErrors}

\* A form is handed to the mapper; `applied' is the list of the last call of
\* applyToForm and `applies' counts the calls.
FormGiven(form) ==
  [shape |-> "menuForm", form |-> form, applied |-> <<>>, applies |-> 0]

\* applyToForm(form, errors)
fmApplyToForm(errors) ==
  /\ fm.shape # NULL
  /\ fm.applies < MaxApplies
  /\ Len(errors) <= MaxErrors
  /\ fm' = [fm EXCEPT !.form = applyToForm(@, errors), !.applied = errors,
                      !.applies = @ + 1]
  /\ UNCHANGED <<storeVars, view, http, loadingService>>

InitFm ==
  /\ InitStores
  /\ view = NoView
  /\ http = NoRequest
  /\ fm \in {FormGiven(form) : form \in MenuForms(1) \cup MenuForms(2)}
  /\ loadingService = LoadingInitial

FmNext == \E errors \in ErrorLists : fmApplyToForm(errors)

SpecFm == InitFm /\ [][FmNext]_vars

(***************************************************************************)
(* LoadingService                                                          *)
(***************************************************************************)
\* Calls of show() and of hide() in one behaviour.
MaxShows == 8
MaxHides == 8

\* A hide() that counts down without Math.max.
hideCountUnclamped(count) == count - 1

\* hide(): Math.max(0, count - 1)
hideCount(count) == IF count - 1 > 0 THEN count - 1 ELSE 0

\* show()
show ==
  /\ loadingService.shows < MaxShows
  /\ LET count == loadingService.loadingCount + 1
     IN loadingService' = [loadingService EXCEPT !.loadingCount = count,
                                                 !.isLoading = count > 0,
                                                 !.shows = @ + 1]
  /\ UNCHANGED <<storeVars, view, http, fm>>

\* hide()
hide ==
  /\ loadingService.hides < MaxHides
  /\ LET count == hideCount(loadingService.loadingCount)
     IN loadingService' =
          [loadingService EXCEPT !.loadingCount = count,
                                 !.isLoading = count > 0,
                                 !.hides = @ + 1,
                                 !.balanced = @ /\ loadingService.hides < loadingService.shows]
  /\ UNCHANGED <<storeVars, view, http, fm>>

InitLoading ==
  /\ InitStores
  /\ view = NoView
  /\ http = NoRequest
  /\ fm = NoForm
  /\ loadingService = LoadingInitial

LoadingNext == show \/ hide

SpecLoading == InitLoading /\ [][LoadingNext]_vars

(***************************************************************************)
(* Properties                                                              *)
(***************************************************************************)
\* The promise of call i settles in this step; returned' then describes it.
Settles(i) == i \in DOMAIN calls /\ i \notin DOMAIN calls'

\* ... through the end of its try block
SettlesOk(i) == Settles(i) /\ returned'.rejection = NoFailure

\* ... through its catch block
SettlesFailed(i) == Settles(i) /\ returned'.rejection # NoFailure

InFlight(kinds) == {i \in DOMAIN calls : calls[i].kind \in kinds}

MenuKinds ==
  {"loadMenus", "selectMenu", "loadMenu", "loadActiveMenu", "createMenu",
   "updateMenu", "deleteMenu", "cloneMenu", "publishMenu", "activateMenu"}

LoadKinds ==
  {"loadCafes", "selectCafe", "loadMenus", "selectMenu", "loadMenu", "loadActiveMenu"}

\* The methods that reload slices of the store after their mutating request,
\* which is named like the method.
ReloadKinds ==
  {"createCafe", "createMenu", "cloneMenu", "updateMenu", "publishMenu", "activateMenu"}

\* The error field of the store a method belongs to, in the next state.
ErrorAfter(kind) == IF kind \in CafeKinds THEN cafeStore'.error ELSE menuStore'.error

----------------------------------------------------------------------------
FailureValue(kind) ==
  CASE kind \in {"createCafe", "createMenu", "cloneMenu"} -> NULL
    [] kind \in {"updateMenu", "deleteCafe", "deleteMenu", "publishMenu", "activateMenu"}
         -> FALSE_
    [] OTHER -> UNDEFINED

\* C1: the promise of every async method of CafeStore and MenuStore resolves
\* and never rejects, whichever of its requests fails (the reload after a
\* successful mutation included); on failure the create/clone methods resolve
\* to null, the update/delete/publish/activate methods to false, and the
\* load/select methods always resolve to nothing.
NeverRejects ==
  [][\A i \in CallIds :
       Settles(i) =>
         /\ returned'.settled = "resolved"
         /\ returned'.kind \in CafeKinds \cup MenuKinds
         /\ SettlesFailed(i) => returned'.value = FailureValue(calls[i].kind)
         /\ calls[i].kind \in LoadKinds => returned'.value = UNDEFINED]_vars

\* C1 witness: createCafe resolved to null because the reload failed after the
\* cafe had been created on the backend.
NeverRejectsWitness ==
  /\ returned.kind = "createCafe"
  /\ returned.settled = "resolved"
  /\ returned.value = NULL
  /\ returned.rejection # NoFailure
  /\ srvCreated.cafes = 1

----------------------------------------------------------------------------
\* A reload request of a reloading method exists only once its mutating
\* request has succeeded.
ReloadFollowsMutation ==
  \A i \in DOMAIN calls :
    (calls[i].kind \in ReloadKinds /\ DOMAIN calls[i].reqs # {calls[i].kind})
      => Succeeded(i, calls[i].kind)

\* C2: when createCafe, createMenu, cloneMenu, updateMenu, publishMenu or
\* activateMenu succeeds, the collection it stores is the response of a list
\* request issued only after its mutating request had succeeded, not a local
\* patch; updateMenu, publishMenu and activateMenu store the re-fetched menu as
\* selectedMenu and activateMenu the re-fetched active menu as activeMenu.
RefreshAfterMutate ==
  [][/\ ReloadFollowsMutation
     /\ ReloadFollowsMutation'
     /\ \A i \in CallIds :
          (SettlesOk(i) /\ calls[i].kind \in ReloadKinds) =>
            /\ calls[i].kind = "createCafe" =>
                 /\ Succeeded(i, "listCafes")
                 /\ cafeStore'.cafes = Body(i, "listCafes").cafes
            /\ calls[i].kind # "createCafe" =>
                 /\ Succeeded(i, "listMenus")
                 /\ menuStore'.menus = Body(i, "listMenus").menus
            /\ calls[i].kind \in {"updateMenu", "publishMenu", "activateMenu"} =>
                 /\ Succeeded(i, "getMenu")
                 /\ menuStore'.selectedMenu = Body(i, "getMenu")
            /\ calls[i].kind = "activateMenu" =>
                 /\ Succeeded(i, "getActiveMenu")
                 /\ menuStore'.activeMenu = Body(i, "getActiveMenu")]_vars

\* C2 witness: activateMenu of m2 resolved true and the store holds the
\* backend's list, in which m2 replaced m1 as the active menu, although the
\* store had never loaded the list before.
RefreshAfterMutateWitness ==
  /\ started = 1
  /\ returned.kind = "activateMenu"
  /\ returned.value = TRUE_
  /\ menuStore.menus = Summaries(srvMenus["c1"])
  /\ menuStore.selectedMenu = [id |-> "m2", name |-> "Lunch", state |-> Active]
  /\ menuStore.activeMenu = menuStore.selectedMenu

----------------------------------------------------------------------------
\* C3 as claimed: after the delete request of deleteCafe / deleteMenu
\* succeeds, the store issues a list request and replaces its collection with
\* the response.
DeleteRefetches ==
  [][\A i \in CallIds :
       /\ (SettlesOk(i) /\ calls[i].kind = "deleteCafe") =>
            /\ Succeeded(i, "listCafes")
            /\ cafeStore'.cafes = Body(i, "listCafes").cafes
       /\ (SettlesOk(i) /\ calls[i].kind = "deleteMenu") =>
            /\ Succeeded(i, "listMenus")
            /\ menuStore'.menus = Body(i, "listMenus").menus]_vars

\* C3 amended: deleteCafe and deleteMenu issue the delete request and no list
\* request; after the delete request succeeds the store replaces its
\* collection with its own local collection without the entities of the
\* deleted id.
DeletePatchesLocally ==
  [][\A i \in CallIds :
       /\ IsCall(i, {"deleteCafe", "deleteMenu"}) =>
            DOMAIN calls[i].reqs = {calls[i].kind}
       /\ (SettlesOk(i) /\ calls[i].kind = "deleteCafe") =>
            cafeStore'.cafes =
              SelectSeq(cafeStore.cafes, LAMBDA c : c.id # calls[i].args.cafeId)
       /\ (SettlesOk(i) /\ calls[i].kind = "deleteMenu") =>
            menuStore'.menus =
              SelectSeq(menuStore.menus, LAMBDA m : m.menuId # calls[i].args.menuId)]_vars

\* C3 witness: deleteCafe resolved true while the store, which had never
\* loaded the list, still holds no cafe although the backend holds one.
DeletePatchesLocallyWitness ==
  /\ returned.kind = "deleteCafe"
  /\ returned.value = TRUE_
  /\ cafeStore.cafes = <<>>
  /\ Len(srvCafes) = 1

----------------------------------------------------------------------------
\* new is old without its entities of the given id: nothing of that id is
\* left, everything else is kept, unchanged and in the same relative order.
RemovedExactly(old, new, IdOf(_), id) ==
  /\ \A n \in DOMAIN new : IdOf(new[n]) # id
  /\ \A k \in DOMAIN old : IdOf(old[k]) # id => \E n \in DOMAIN new : new[n] = old[k]
  /\ \E f \in [DOMAIN new -> DOMAIN old] :
       /\ \A n \in DOMAIN new : new[n] = old[f[n]]
       /\ \A m, n \in DOMAIN new : m < n => f[m] < f[n]
  /\ Len(new) = Len(old) - (IF \E k \in DOMAIN old : IdOf(old[k]) = id THEN 1 ELSE 0)

\* C4: when deleteCafe(id) / deleteMenu(cafeId, id) succeeds, the collection
\* right after it is the collection held just before with the entity of that
\* id removed: every other entity is still there, unchanged and in the same
\* relative order, and the size drops by exactly 1 when the id was present.
DeleteRemovesExactlyOne ==
  [][\A i \in CallIds :
       /\ (SettlesOk(i) /\ calls[i].kind = "deleteCafe") =>
            /\ returned'.value = TRUE_
            /\ RemovedExactly(cafeStore.cafes, cafeStore'.cafes,
                              LAMBDA c : c.id, calls[i].args.cafeId)
       /\ (SettlesOk(i) /\ calls[i].kind = "deleteMenu") =>
            /\ returned'.value = TRUE_
            /\ RemovedExactly(menuStore.menus, menuStore'.menus,
                              LAMBDA m : m.menuId, calls[i].args.menuId)]_vars

\* C4 witness: deleteMenu of m1 resolved true and of the two menus loaded
\* before only m2 is left.
DeleteRemovesExactlyOneWitness ==
  /\ returned.kind = "deleteMenu"
  /\ returned.args.menuId = "m1"
  /\ returned.value = TRUE_
  /\ menuStore.menus = <<[menuId |-> "m2", name |-> "Lunch", state |-> Published]>>

----------------------------------------------------------------------------
\* C5: the backend keeping at most one Active menu per cafe, once activateMenu
\* has resolved true the store's menus hold at most one Active menu: the menu
\* that was active before is not shown as Active next to the activated one.
AtMostOneActiveAfterActivate ==
  (returned.kind = "activateMenu" /\ returned.value = TRUE_) => Len(activeMenus) <= 1

\* C5 witness: activateMenu of m2 resolved true; the store had loaded the list
\* with m1 Active before, and now shows m2 as the only Active menu.
AtMostOneActiveWitness ==
  /\ started = 2
  /\ returned.kind = "activateMenu"
  /\ returned.args.menuId = "m2"
  /\ returned.value = TRUE_
  /\ activeMenus = <<[menuId |-> "m2", name |-> "Lunch", state |-> Active]>>
  /\ \E k \in DOMAIN menuStore.menus :
       menuStore.menus[k] = [menuId |-> "m1", name |-> "Breakfast", state |-> Published]

----------------------------------------------------------------------------
\* The menus of the given state, recounted directly from the collection.
Recount(state) ==
  LET menus == menuStore.menus
      places == {k \in DOMAIN menus : menus[k].state = state}
      Below(k) == Cardinality({j \in places : j < k})
  IN [n \in 1..Cardinality(places) |-> menus[CHOOSE k \in places : Below(k) = n - 1]]

\* C6: in every reachable state the derived views equal a direct recount of
\* the collection: cafeCount and menuCount are the sizes, hasCafes and hasMenus
\* hold iff the size is positive, and draftMenus, publishedMenus and
\* activeMenus are exactly the menus in state Draft, Published and Active.
DerivedViewsRecount ==
  /\ cafeCount = Cardinality(DOMAIN cafeStore.cafes)
  /\ hasCafes <=> cafeStore.cafes # <<>>
  /\ menuCount = Cardinality(DOMAIN menuStore.menus)
  /\ hasMenus <=> menuStore.menus # <<>>
  /\ draftMenus = Recount(Draft)
  /\ publishedMenus = Recount(Published)
  /\ activeMenus = Recount(Active)

\* C6 witness: the store holds cafes and a menu of each state.
DerivedViewsWitness ==
  /\ cafeCount = 2
  /\ hasCafes
  /\ menuCount = 3
  /\ Len(draftMenus) = 1
  /\ Len(publishedMenus) = 1
  /\ Len(activeMenus) = 1

----------------------------------------------------------------------------
\* C7: when the request of a load operation (loadCafes, selectCafe,
\* loadMenus, selectMenu, loadMenu, loadActiveMenu) fails, the error field of
\* its store is non-null once the operation has resolved.
LoadFailureSetsError ==
  [][\A i \in CallIds :
       (SettlesFailed(i) /\ calls[i].kind \in LoadKinds) =>
         ErrorAfter(calls[i].kind) # NULL]_vars

\* C7, the state that breaks it: loadActiveMenu of a cafe that has an active
\* menu has resolved after its request failed, activeMenu is null and error is
\* null.
LoadFailureWitness ==
  /\ started = 1
  /\ returned.kind = "loadActiveMenu"
  /\ returned.rejection # NoFailure
  /\ HasActiveMenu(returned.args.cafeId)
  /\ menuStore.activeMenu = NullMenu
  /\ menuStore.error = NULL

----------------------------------------------------------------------------
\* loading is false in a store none of whose operations is in flight
IdleNotLoading ==
  /\ InFlight(CafeKinds) = {} => ~cafeStore.loading
  /\ InFlight(MenuKinds) = {} => ~menuStore.loading

\* C8: the loading flag of a store is false initially and whenever no
\* operation of that store is in flight: an operation sets it to true when it
\* starts and to false when it resolves, on the success path and on every
\* failure path, for any interleaving of operations.
LoadingFollowsCalls ==
  [][/\ IdleNotLoading
     /\ IdleNotLoading'
     /\ \A i \in CallIds :
          /\ (i \notin DOMAIN calls /\ i \in DOMAIN calls') =>
               IF calls'[i].kind \in CafeKinds
                 THEN cafeStore'.loading ELSE menuStore'.loading
          /\ Settles(i) =>
               IF calls[i].kind \in CafeKinds
                 THEN ~cafeStore'.loading ELSE ~menuStore'.loading]_vars

\* C8 witness: two calls of CafeStore overlapped, the second failed, and with
\* none left in flight loading is false.
LoadingFollowsCallsWitness ==
  /\ started = 2
  /\ calls = <<>>
  /\ returned.kind \in CafeKinds
  /\ returned.rejection # NoFailure
  /\ ~returned.args = [none |-> NULL]
  /\ ~cafeStore.loading
  /\ cafeStore.error # NULL

----------------------------------------------------------------------------
\* C9: when createCafe(request) succeeds and no other CafeStore operation
\* overlapped it, it resolves to the id the backend returned for the create
\* request and the store's cafes contain a cafe with that id and with the
\* submitted name and contact info.
CreateCafeRoundTrip ==
  [][\A i \in CallIds :
       (SettlesOk(i) /\ calls[i].kind = "createCafe" /\ calls[i].alone) =>
         /\ returned'.value = Body(i, "createCafe").cafeId
         /\ \E k \in DOMAIN cafeStore'.cafes :
              cafeStore'.cafes[k] =
                [id |-> returned'.value,
                 name |-> calls[i].args.request.name,
                 contactInfo |-> calls[i].args.request.contactInfo]]_vars

\* C9 witness: createCafe resolved to c3 and the store holds the two initial
\* cafes and the new one.
CreateCafeRoundTripWitness ==
  /\ started = 1
  /\ returned.kind = "createCafe"
  /\ returned.value = "c3"
  /\ cafeStore.cafes =
       Append(InitialCafes,
              [id |-> "c3", name |-> "New Cafe", contactInfo |-> "new@cafe.com"])

----------------------------------------------------------------------------
FallbackText(kind) ==
  CASE kind = "loadCafes" -> "Failed to load cafes"
    [] kind = "createCafe" -> "Failed to create cafe"
    [] kind = "deleteCafe" -> "Failed to delete cafe"

----------------------------------------------------------------------------
\* C11: when the getCafe request made by selectCafe(cafeId) fails, whatever the
\* failure value, the store's error becomes the text 'Failed to load cafe',
\* loading becomes false and selectedCafe is not set to a new cafe.
SelectCafeFailureText ==
  [][\A i \in CallIds :
       (SettlesFailed(i) /\ calls[i].kind = "selectCafe") =>
         /\ cafeStore'.error = "Failed to load cafe"
         /\ ~cafeStore'.loading
         /\ cafeStore'.selectedCafe = cafeStore.selectedCafe]_vars

\* C11, the state that breaks it: selectCafe resolved after getCafe was
\* rejected with an Error, and error is the message of that Error.
SelectCafeFailureWitness ==
  /\ returned.kind = "selectCafe"
  /\ returned.rejection.isError
  /\ cafeStore.error = returned.rejection.message
  /\ cafeStore.error # "Failed to load cafe"
  /\ ~cafeStore.loading

\* The controls of the mounted form fail a validator: a required name is
\* empty or a text is longer than its maxLength allows.
ControlsInvalid(v) ==
  CASE v.component = Page ->
         \/ v.name \in {"", TooLong}
         \/ \E k \in DOMAIN v.sections :
              \/ v.sections[k].name \in {"", TooLong}
              \/ \E n \in DOMAIN v.sections[k].items :
                   v.sections[k].items[n].name \in {"", TooLong}
    [] v.component = Form -> v.name \in {"", TooLong}
    [] v.component = Dialog -> v.name \in {"", TooLong} \/ v.contactInfo = TooLong
    [] OTHER -> FALSE

\* onSubmit of the mounted component is invoked in this step.
Submits == view.component # NULL /\ view'.submits = view.submits + 1

\* C12: when onSubmit of MenuFormPageComponent, MenuFormComponent or
\* CafeFormDialogComponent is invoked while the form is invalid, no store
\* method is called and no request is sent, the component neither navigates
\* nor closes its dialog, and the two menu forms mark all fields as touched.
InvalidSubmitDoesNothing ==
  [][(Submits /\ ControlsInvalid(view)) =>
       /\ UNCHANGED storeVars
       /\ view.component \in {Page, Form} =>
            view'.navigated = view.navigated /\ view'.touched
       /\ view.component = Dialog =>
            view'.closed = view.closed /\ view'.result = view.result]_vars

\* An invalid new-menu page was submitted: its fields are touched and the
\* store was never called.
InvalidSubmitWitness ==
  /\ view.component = Page
  /\ view.submits = 1
  /\ ControlsInvalid(view)
  /\ view.touched
  /\ started = 0
  /\ view.navigated = NoRoute

\* Call i is the createMenu / updateMenu that onSubmit of the mounted menu
\* form component awaits.
OwnSave(i) ==
  /\ view.component \in {Page, Form}
  /\ i \in DOMAIN calls
  /\ calls[i].caller = "onSubmit"
  /\ calls[i].kind \in {"createMenu", "updateMenu"}

\* C13: when the createMenu / updateMenu call of a submit of
\* MenuFormPageComponent or MenuFormComponent settles while the component is
\* still on its route, the component navigates to the menu list of the cafe
\* if and only if that call succeeded, whatever other MenuStore operations
\* overlap the submit.
NavigatesIffSaved ==
  [][\A i \in CallIds :
       (OwnSave(i) /\ Settles(i) /\ view.navigated = NoRoute) =>
         ((view'.navigated = MenuListUrl(view.cafeId)) <=> SettlesOk(i))]_vars

\* The createMenu of the page's submit succeeded and the page is still on its
\* route, with the error of another MenuStore operation in the store.
SavedButStayedWitness ==
  /\ view.component = Page
  /\ returned.kind = "createMenu"
  /\ returned.rejection = NoFailure
  /\ view.navigated = NoRoute
  /\ ~view.isSubmitting
  /\ menuStore.error # NULL

\* The backend answers the request in this step with `response'.
Answers(response) ==
  /\ http.phase = "sent"
  /\ Len(http'.statuses) = Len(http.statuses) + 1
  /\ http'.statuses[Len(http'.statuses)] = response.status

\* C14: when the backend answers a request with a 400 whose problem details
\* are a validation error, errorInterceptor opens no snack bar for it and the
\* error reaches the caller.
ValidationFailureNotNotified ==
  [][(Answers([status |-> 400, type |-> 1]) /\ http.sent = 1) =>
       /\ http'.opened = http.opened
       /\ http'.outcome = "error"
       /\ http'.error.status = 400]_vars

\* A validation failure was answered to the first request and the snack bar
\* opened with the message for a 400.
ValidationFailureNotifiedWitness ==
  /\ http.phase = "idle"
  /\ http.requests = 1
  /\ http.statuses = <<400>>
  /\ http.error = [status |-> 400, type |-> 1]
  /\ http.outcome = "error"
  /\ http.opened = <<"Invalid request. Please check your input.">>

\* 0 stands for a request that got no answer, 5xx for a failure of the server.
TransportFailure(status) == status = 0 \/ (status >= 500 /\ status <= 599)

\* The current request goes to an API URL and every answer to it so far was a
\* transport failure.
KeepsFailing ==
  /\ http.phase # NULL
  /\ http.url \in {<<"api", "cafes">>, <<"api", "i18n">>}
  /\ http.statuses # <<>>
  /\ \A k \in DOMAIN http.statuses : TransportFailure(http.statuses[k])

NeverRetried ==
  (/\ http.phase # NULL
   /\ http.statuses # <<>>
   /\ http.statuses[1] # 200
   /\ \/ ~TransportFailure(http.statuses[1])
      \/ http.url = <<"assets", "i18n", "en.json">>) =>
    /\ http.sent = 1
    /\ http.statuses = <<http.statuses[1]>>
    /\ http.delays = <<>>
    /\ http.waited = <<>>
    /\ http.phase = "idle"
    /\ http.outcome = "error"
    /\ http.error.status = http.statuses[1]
    /\ http.doneAt = http.failedAt

\* A translation file failed with a 500 and an API request with a 404, each
\* sent once.
NeverRetriedWitness ==
  /\ http.phase = "idle"
  /\ http.requests = 2
  /\ http.url = <<"assets", "i18n", "en.json">>
  /\ http.statuses = <<500>>
  /\ http.sent = 1
  /\ http.outcome = "error"
  /\ \E key \in http.shownErrors : key.status = 404

\* The internal path that a field name of the server stands for: every name
\* with its first letter in lower case, every index a segment of its own.
InternalPath(field) ==
  CASE field = FieldName -> <<name_>>
    [] field = FieldSections0 -> <<sections_, <<"0">>>>
    [] field = FieldSections5 -> <<sections_, <<"5">>>>
    [] field = FieldSections0Name -> <<sections_, <<"0">>, name_>>
    [] field = FieldSections1Name -> <<sections_, <<"1">>, name_>>
    [] field = FieldFoo -> <<<<"f", "o", "o">>>>

\* applyToForm is called in this step; fm'.applied is the list it is given.
Applies == fm.shape # NULL /\ fm'.applies = fm.applies + 1

\* The error is the only one of the list for its field.
OnlyOfItsField(errors, k) ==
  \A j \in DOMAIN errors : errors[j].field = errors[k].field => j = k

\* C17: after applyToForm, for every error of the list that has a field whose
\* internal path names a control of the form (and that is the only error for
\* that field), the control at that path carries the entry backend with the
\* message of the error; so the error of "Sections[0].Name" is on the control
\* sections.0.name.
FieldErrorsReachControls ==
  [][Applies =>
       \A k \in DOMAIN fm'.applied :
         LET e == fm'.applied[k]
         IN (/\ e.field # NoField
             /\ InternalPath(e.field) \in DOMAIN fm.form
             /\ OnlyOfItsField(fm'.applied, k)) =>
              LET errors == fm'.form[InternalPath(e.field)].errors
              IN /\ errors # NoErrors
                 /\ "backend" \in DOMAIN errors
                 /\ errors["backend"] = Text(e.message)]_vars

\* The error of "Sections[0].Name" was applied and the control sections.0.name
\* carries no backend entry.
NestedFieldDroppedWitness ==
  /\ fm.shape # NULL
  /\ fm.applies = 1
  /\ fm.applied = <<[field |-> FieldSections0Name, message |-> "Name already exists"]>>
  /\ LET errors == fm.form[<<sections_, <<"0">>, name_>>].errors
     IN errors = NoErrors \/ "backend" \notin DOMAIN errors

\* The entries of an errors object other than backend.
OtherEntries(errors) ==
  IF errors = NoErrors THEN {}
  ELSE {<<key, errors[key]>> : key \in DOMAIN errors \ {"backend"}}

\* C18: clearing the mapped errors of a form (applyToForm with no errors runs
\* clearFormErrors on the whole tree and nothing else) leaves on every control
\* of the tree exactly the entries other than backend that it had, removes a
\* backend entry with a message or a list of messages, adds nothing, and
\* leaves the errors null only where there were no other entries.
ClearRemovesOnlyBackend ==
  [][(Applies /\ fm'.applied = <<>>) =>
       \A control \in DOMAIN fm.form :
         LET before == fm.form[control].errors
             after == fm'.form[control].errors
         IN /\ OtherEntries(after) = OtherEntries(before)
            /\ (after # NoErrors /\ "backend" \in DOMAIN after) =>
                 /\ before # NoErrors
                 /\ "backend" \in DOMAIN before
                 /\ after["backend"] = before["backend"]
                 /\ before["backend"] = Text("")
            /\ after = NoErrors <=>
                 (OtherEntries(before) = {} /\
                    (before = NoErrors \/ before["backend"] # Text("")))
            /\ fm'.form[control].kind = fm.form[control].kind]_vars

\* A control that carried required and backend was cleared: required is left.
ClearKeepsRequiredWitness ==
  /\ fm.shape # NULL
  /\ fm.applies = 1
  /\ fm.applied = <<>>
  /\ fm.form[<<name_>>].errors = [required |-> True]
  /\ fm.form[<<sections_, <<"0">>, name_>>].errors = NoErrors
  /\ fm.form[<<>>].errors = NoErrors
  /\ <<sections_, <<"1">>, name_>> \in DOMAIN fm.form
  /\ fm.form[<<sections_, <<"1">>, name_>>].errors = [required |-> True]

\* The errors of the list that have no field, or a field whose internal path
\* names a control of the form.
RECURSIVE Resolving(_, _)
Resolving(form, errors) ==
  IF errors = <<>> THEN <<>>
  ELSE IF Head(errors).field = NoField \/ InternalPath(Head(errors).field) \in DOMAIN form
    THEN <<Head(errors)>> \o Resolving(form, Tail(errors))
    ELSE Resolving(form, Tail(errors))

\* C19: applyToForm is defined for every list, and an error whose field names
\* no control (an index past the end of an array, an unknown property) is as
\* good as absent: the form after applyToForm is the form that the list
\* without these errors gives, so no control carries an entry for them and
\* the other errors are applied as they are without them.
UnresolvedErrorsAreDropped ==
  [][Applies =>
       fm'.form = applyToForm(fm.form, Resolving(fm.form, fm'.applied))]_vars

\* An error for Sections[5] and an error for Name were applied to a form: the
\* name carries its message and no section carries any entry.
UnresolvedDroppedWitness ==
  /\ fm.shape # NULL
  /\ fm.applies = 1
  /\ fm.applied = <<[field |-> FieldSections5, message |-> "Name already exists"],
                    [field |-> FieldName, message |-> "Name already exists"]>>
  /\ fm.form[<<name_>>].errors = [backend |-> Text("Name already exists")]
  /\ \A control \in DOMAIN fm.form :
       control # <<name_>> => OtherEntries(fm.form[control].errors) = {}
                              /\ ~hasBackend(fm.form[control].errors)

\* The sequence with its element at index i taken out and put back at index j.
Moved(seq, i, j) ==
  LET rest == SubSeq(seq, 1, i - 1) \o SubSeq(seq, i + 1, Len(seq))
  IN SubSeq(rest, 1, j - 1) \o <<seq[i]>> \o SubSeq(rest, j, Len(rest))

\* Both sequences hold the same elements, each as often as the other.
SameElements(s, t) ==
  /\ Len(s) = Len(t)
  /\ \A k \in DOMAIN s :
       Cardinality({n \in DOMAIN s : s[n] = s[k]})
         = Cardinality({n \in DOMAIN t : t[n] = s[k]})

\* The request lists the sections and the items of each section by the names
\* of the controls, in the order of the controls.
ListsControlsInOrder(request, sections) ==
  /\ Len(request.sections) = Len(sections)
  /\ \A k \in DOMAIN sections :
       /\ request.sections[k].name = sections[k].name
       /\ Len(request.sections[k].items) = Len(sections[k].items)
       /\ \A n \in DOMAIN sections[k].items :
            request.sections[k].items[n].name = sections[k].items[n].name

\* C20: the request that onSubmit of MenuFormPageComponent hands to
\* createMenu / updateMenu lists the sections, and the items of each section,
\* in the order in which the controls of the form stand at that moment,
\* whatever was added, removed or dragged before; and dragging a section or
\* an item from index i to index j moves that one element of the value of
\* the form, from which the request is built, to index j and keeps all the
\* others in their order, none lost and none twice.
PayloadFollowsControls ==
  [][/\ (view.component = Page /\ started' = started + 1
           /\ calls'[started'].caller = "onSubmit") =>
          /\ calls'[started'].args.request.name = view.name
          /\ ListsControlsInOrder(calls'[started'].args.request, view.sections)
     /\ \A i, j \in 1..MaxSections :
          (view.component = Page /\ view'.sections # view.sections /\ dropSection(i, j)) =>
            /\ view'.value.sections = Moved(view.value.sections, i, j)
            /\ SameElements(view'.value.sections, view.value.sections)
            /\ ListsControlsInOrder(view'.value, view'.sections)
     /\ \A k \in 1..MaxSections : \A i, j \in 1..MaxItems :
          (view.component = Page /\ view'.sections # view.sections /\ dropItem(k, i, j)) =>
            /\ view'.value.sections[k].items = Moved(view.value.sections[k].items, i, j)
            /\ SameElements(view'.value.sections[k].items, view.value.sections[k].items)
            /\ \A n \in DOMAIN view.sections :
                 n # k => view'.value.sections[n] = view.value.sections[n]
            /\ ListsControlsInOrder(view'.value, view'.sections)]_vars

\* A new menu was submitted whose first section has no items, whose second
\* has Bread and whose third has Soup.
PayloadOrderWitness ==
  /\ view.component = Page
  /\ view.isSubmitting
  /\ \E i \in DOMAIN calls :
       /\ calls[i].caller = "onSubmit"
       /\ calls[i].kind = "createMenu"
       /\ Len(calls[i].args.request.sections) = 3
       /\ calls[i].args.request.sections[1].items = <<>>
       /\ calls[i].args.request.sections[2].items = <<[name |-> "Bread", image |-> NULL]>>
       /\ calls[i].args.request.sections[3].items = <<[name |-> "Soup", image |-> NULL]>>

\* C21: isLoading starts false; after any show() and hide() calls it is true
\* exactly when loadingCount is positive, and loadingCount is never negative;
\* a hide() while nothing is shown leaves isLoading false; and as long as no
\* hide() came without a show() before it, loadingCount is the number of
\* show() calls minus the number of hide() calls, so that isLoading is true
\* exactly when more show() than hide() calls were made.
LoadingCountsRequests ==
  /\ loadingService.isLoading = FALSE
  /\ [][/\ loadingService'.isLoading = (loadingService'.loadingCount > 0)
        /\ loadingService'.loadingCount >= 0
        /\ (loadingService'.hides = loadingService.hides + 1 /\ ~loadingService.isLoading) =>
             ~loadingService'.isLoading
        /\ loadingService'.balanced =>
             /\ loadingService'.loadingCount
                  = loadingService'.shows - loadingService'.hides
             /\ loadingService'.isLoading
                  = (loadingService'.shows > loadingService'.hides)]_vars

\* Two requests were shown and one of them has ended: isLoading is still true.
LoadingOverlapWitness ==
  /\ loadingService.shows = 2
  /\ loadingService.hides = 1
  /\ loadingService.balanced
  /\ loadingService.isLoading


----------------------------------------------------------------------------
\* The loading flag of the store a method belongs to, in the next state.
LoadingAfter(kind) == IF kind \in CafeKinds THEN cafeStore'.loading ELSE menuStore'.loading

\* Call i settles in this step while another call of the same store is still
\* in flight.
SettlesBeforeAnother(i) ==
  /\ Settles(i)
  /\ \E j \in DOMAIN calls' : SameStore(calls'[j].kind, calls[i].kind)

\* C22 as claimed: when two operations of the same store overlap, the loading
\* flag is not set to false while one of them is still outstanding; the last
\* one to finish clears it.
LastToFinishClearsLoading ==
  [][\A i \in CallIds : SettlesBeforeAnother(i) => LoadingAfter(calls[i].kind)]_vars

\* C22 amended: every operation sets the loading flag of its store to false
\* when it finishes, so of two overlapping operations of one store the first
\* to finish clears the flag while the other is still outstanding, and the
\* flag then stays false until the next operation of that store starts (the
\* end of the outstanding one included).
FirstToFinishClearsLoading ==
  [][\A i \in CallIds :
       /\ SettlesBeforeAnother(i) => ~LoadingAfter(calls[i].kind)
       /\ (Settles(i) /\ ~cafeStore.loading) => ~cafeStore'.loading
       /\ (Settles(i) /\ ~menuStore.loading) => ~menuStore'.loading]_vars

\* C22 witness: two calls of one store overlapped, one has finished and the
\* other is still in flight, and the loading flag of the store is false.
LoadingClearedEarlyWitness ==
  /\ started = 2
  /\ Cardinality(DOMAIN calls) = 1
  /\ \A i \in DOMAIN calls :
       /\ ~calls[i].alone
       /\ SameStore(calls[i].kind, returned.kind)
       /\ IF calls[i].kind \in CafeKinds THEN ~cafeStore.loading ELSE ~menuStore.loading


----------------------------------------------------------------------------
\* Call i starts in this step.
Starts(i) == i \notin DOMAIN calls /\ i \in DOMAIN calls'

\* The error field of the store a method belongs to, in this state.
ErrorBefore(kind) == IF kind \in CafeKinds THEN cafeStore.error ELSE menuStore.error

\* The failure that settles call i wrote its message to error.
FailureWritesError(i) ==
  /\ ErrorAfter(calls[i].kind) # NULL
  /\ returned'.rejection.isError => ErrorAfter(calls[i].kind) = returned'.rejection.message

\* What the start, the failed end and the successful end of the operations of
\* the given kinds do to error, and that nothing else changes it.
ErrorEvents(kinds) ==
  /\ \A i \in CallIds :
       /\ Starts(i) => ErrorAfter(calls'[i].kind) = NULL
       /\ (SettlesFailed(i) /\ calls[i].kind \in kinds) => FailureWritesError(i)
       /\ SettlesOk(i) => ErrorAfter(calls[i].kind) = ErrorBefore(calls[i].kind)
  /\ (\A i \in CallIds : i \in DOMAIN calls <=> i \in DOMAIN calls') =>
       (cafeStore'.error = cafeStore.error /\ menuStore'.error = menuStore.error)
  /\ \A i \in CallIds :
       (Starts(i) \/ Settles(i)) =>
         IF (IF Starts(i) THEN calls'[i].kind ELSE calls[i].kind) \in CafeKinds
           THEN menuStore'.error = menuStore.error
           ELSE cafeStore'.error = cafeStore.error

\* C23: error of a store is written by two kinds of events only: the start of
\* an operation of the store sets it to null and the failure of an operation
\* sets it to that operation's message; a successful completion and every
\* other step leave it as it is, so that after any interleaving error is the
\* message of the last failure after the most recent start, or null.
ErrorIsLastWrite == [][ErrorEvents(CafeKinds \cup MenuKinds)]_vars

\* What does hold: the same for the failures of all operations but
\* loadActiveMenu, in all steps but those of clearMenus(), which resets the
\* whole state of MenuStore, error included.
ErrorIsLastWriteElsewhere ==
  [][(calls' # calls \/ menuStore' # MenuInitialState) =>
       ErrorEvents((CafeKinds \cup MenuKinds) \ {"loadActiveMenu"})]_vars

\* C23, the state that breaks it: a MenuStore operation failed and
\* loadActiveMenu, started before that failure, failed after it; no operation
\* has started since, and error, which held the message of the first failure,
\* still holds it and not that of the last failure.
StaleErrorWitness ==
  /\ started = 2
  /\ calls = <<>>
  /\ returned.id = 1
  /\ returned.kind = "loadActiveMenu"
  /\ returned.rejection = [isError |-> TRUE, message |-> "API Error"]
  /\ menuStore.error \notin {NULL, "API Error"}


----------------------------------------------------------------------------
MutatingKinds ==
  {"createCafe", "deleteCafe", "createMenu", "updateMenu", "deleteMenu", "cloneMenu",
   "publishMenu", "activateMenu"}

\* C24: when a mutating operation fails, at its mutating request or at a
\* reload request after it (one of several reloads having arrived or not),
\* the failure changes nothing but error and loading of its store: cafes and
\* selectedCafe, or menus, selectedMenu, activeMenu and currentCafeId, are
\* what they were before the failure, and the other store is unchanged.
FailureChangesOnlyFlags ==
  [][\A i \in CallIds :
       (SettlesFailed(i) /\ calls[i].kind \in MutatingKinds) =>
         IF calls[i].kind \in CafeKinds
           THEN /\ cafeStore'.cafes = cafeStore.cafes
                /\ cafeStore'.selectedCafe = cafeStore.selectedCafe
                /\ menuStore' = menuStore
           ELSE /\ menuStore'.menus = menuStore.menus
                /\ menuStore'.selectedMenu = menuStore.selectedMenu
                /\ menuStore'.activeMenu = menuStore.activeMenu
                /\ menuStore'.currentCafeId = menuStore.currentCafeId
                /\ cafeStore' = cafeStore]_vars

\* C24 witness: updateMenu of m2 resolved false after the backend had renamed
\* the menu, so a reload request failed; the store, which had selected m2
\* before, still holds the menu under its old name and no list.
FailedReloadWitness ==
  /\ returned.kind = "updateMenu"
  /\ returned.value = FALSE_
  /\ returned.args.menuId = "m2"
  /\ \E k \in DOMAIN srvMenus["c1"] :
       srvMenus["c1"][k] = [id |-> "m2", name |-> "Renamed", state |-> Published]
  /\ menuStore.selectedMenu = [id |-> "m2", name |-> "Lunch", state |-> Published]
  /\ menuStore.menus = <<>>
  /\ menuStore.error # NULL
  /\ ~menuStore.loading


----------------------------------------------------------------------------
\* The mutating methods whose result tells success from failure by an id or
\* by true, and the value each resolves to on failure.
ResultKinds ==
  {"createCafe", "createMenu", "cloneMenu", "updateMenu", "publishMenu", "activateMenu"}

\* C25 as claimed: createCafe, createMenu and cloneMenu resolve to a non-null id, and
\* updateMenu, publishMenu and activateMenu to true, exactly when their
\* mutating request succeeded; null / false is returned only when the backend
\* rejected the mutation.
ResultTellsMutation ==
  [][\A i \in CallIds :
       (Settles(i) /\ calls[i].kind \in ResultKinds) =>
         (returned'.value # FailureValue(calls[i].kind) <=> Succeeded(i, calls[i].kind))]_vars

\* The requests a method of ResultKinds issues to reload the slices of its
\* store once its mutating request has succeeded.
ReloadRequests(kind) ==
  CASE kind = "createCafe" -> {"listCafes"}
    [] kind \in {"createMenu", "cloneMenu"} -> {"listMenus"}
    [] kind \in {"updateMenu", "publishMenu"} -> {"getMenu", "listMenus"}
    [] kind = "activateMenu" -> {"getMenu", "getActiveMenu", "listMenus"}

\* C25 amended: createCafe, createMenu and cloneMenu resolve to a non-null id
\* (the one the backend returned), and updateMenu, publishMenu and
\* activateMenu to true, exactly when the mutating request and every reload
\* request after it succeeded.  They resolve to null / false, with error set,
\* when the mutating request was rejected and also when the backend applied
\* the mutation and a reload request was rejected: a null / false result does
\* not tell that the mutation was not applied.
ResultTellsMutationAndReload ==
  [][\A i \in CallIds :
       (Settles(i) /\ calls[i].kind \in ResultKinds) =>
         LET kind == calls[i].kind
             reloaded == /\ Succeeded(i, kind)
                         /\ ReloadRequests(kind) \subseteq DOMAIN calls[i].reqs
                         /\ \A req \in ReloadRequests(kind) : Succeeded(i, req)
         IN /\ returned'.value # FailureValue(kind) <=> reloaded
            /\ (reloaded /\ FailureValue(kind) = NULL) =>
                 returned'.value = Body(i, kind)[IF kind = "createCafe" THEN "cafeId" ELSE "menuId"]
            /\ (reloaded /\ FailureValue(kind) = FALSE_) => returned'.value = TRUE_
            /\ ~reloaded => ErrorAfter(kind) # NULL]_vars

\* C25 witness: createMenu resolved to null with error set
\* although the backend has created the menu; the list request after the
\* create request was the one rejected.
CreatedButNullWitness ==
  /\ started = 1
  /\ returned.kind = "createMenu"
  /\ returned.value = NULL
  /\ menuStore.error # NULL
  /\ srvCreated.menus = 1
  /\ \E k \in DOMAIN srvMenus[returned.args.cafeId] :
       srvMenus[returned.args.cafeId][k].id = "m4"


----------------------------------------------------------------------------
\* The cafe a menu belongs to.  Menu ids are unique over all cafes, and no
\* menu created by the backend is deleted again (MenuRefs names the initial
\* menus only).
CafeOf(menuId) ==
  CHOOSE cafeId \in CafeIds :
    \E m \in Range(srvMenus[cafeId]) \cup Range(InitialMenus[cafeId]) : m.id = menuId

\* C26: whenever menus of MenuStore is non-empty, the menus it holds are menus
\* of the cafe named by currentCafeId, whichever way loadMenus calls and
\* mutations for different cafes overlap, complete or fail.
MenusBelongToCurrentCafe ==
  \A k \in DOMAIN menuStore.menus :
    CafeOf(menuStore.menus[k].menuId) = menuStore.currentCafeId

\* C26, the state that breaks it: loadMenus("c1") and then loadMenus("c2")
\* were called; the list of c2 arrived first and that of c1 last.  Both calls
\* have resolved without failure, currentCafeId names c2 and menus holds the
\* menus of c1.
MenusOfOtherCafeWitness ==
  /\ started = 2
  /\ calls = <<>>
  /\ returned.id = 1
  /\ returned.kind = "loadMenus"
  /\ returned.args.cafeId = "c1"
  /\ returned.rejection = NoFailure
  /\ menuStore.error = NULL
  /\ menuStore.currentCafeId = "c2"
  /\ menuStore.menus = Summaries(InitialMenus["c1"])


----------------------------------------------------------------------------
SelectMenuKinds == {"selectMenu", "loadMenu"}

\* Call i is the second of two overlapping calls of the given kinds to settle,
\* both without failure, and nothing is in flight afterwards.
LastOfTwoSettles(i, kinds) ==
  /\ SettlesOk(i)
  /\ calls[i].kind \in kinds
  /\ calls' = <<>>
  /\ ~calls[i].alone
  /\ returned.id \notin {0, i}
  /\ returned.kind \in kinds
  /\ returned.rejection = NoFailure

\* The arguments of the call started last, of call i and the call settled
\* before it.
LastStartedArgs(i) == IF i > returned.id THEN calls[i].args ELSE returned.args

\* C27: after two overlapping selectMenu / loadMenu calls (resp. selectCafe
\* calls) have both completed successfully, selectedMenu (resp. selectedCafe)
\* is the entity requested by the call that was started last, in whichever
\* order the responses arrived.
LastStartedIsSelected ==
  [][\A i \in CallIds :
       /\ LastOfTwoSettles(i, SelectMenuKinds) =>
            menuStore'.selectedMenu.id = LastStartedArgs(i).menuId
       /\ LastOfTwoSettles(i, {"selectCafe"}) =>
            cafeStore'.selectedCafe.id = LastStartedArgs(i).cafeId]_vars

\* What does hold: the successful end of a selectMenu / loadMenu / selectCafe
\* call selects the entity that call asked for, which is what a form that
\* awaits the call reads in the same turn.
OwnRequestIsSelected ==
  [][\A i \in CallIds :
       /\ (SettlesOk(i) /\ calls[i].kind \in SelectMenuKinds) =>
            menuStore'.selectedMenu.id = calls[i].args.menuId
       /\ (SettlesOk(i) /\ calls[i].kind = "selectCafe") =>
            cafeStore'.selectedCafe.id = calls[i].args.cafeId]_vars

\* C27, the state that breaks it: selectMenu("c1", "m1") and then
\* selectMenu("c1", "m2") were called; the response for m2 arrived first and
\* that for m1 last.  Both calls have resolved without failure and the
\* selected menu is m1, the one requested by the call started first.
FirstStartedSelectedWitness ==
  /\ started = 2
  /\ calls = <<>>
  /\ returned.id = 1
  /\ returned.kind = "selectMenu"
  /\ returned.args.menuId = "m1"
  /\ returned.rejection = NoFailure
  /\ returned.before.id = 2
  /\ returned.before.kind = "selectMenu"
  /\ returned.before.args.menuId = "m2"
  /\ returned.before.rejection = NoFailure
  /\ menuStore.error = NULL
  /\ menuStore.selectedMenu.id = "m1"


----------------------------------------------------------------------------
\* A settled call, as `returned' or `returned.before' records it, is a delete
\* call that resolved true; the store's collection holds none of its id.
DeletedIsGone(call) ==
  /\ (call.kind = "deleteCafe" /\ call.rejection = NoFailure) =>
       \A k \in DOMAIN cafeStore.cafes : cafeStore.cafes[k].id # call.args.cafeId
  /\ (call.kind = "deleteMenu" /\ call.rejection = NoFailure) =>
       \A k \in DOMAIN menuStore.menus : menuStore.menus[k].menuId # call.args.menuId

\* C28: once deleteCafe(id) or deleteMenu(cafeId, id) has resolved true, no
\* later state of the store holds an entity of that id in cafes, resp. menus,
\* also when a list request issued before the deletion delivers its response
\* after the delete call has completed.
DeletedStaysGone == DeletedIsGone(returned) /\ DeletedIsGone(returned.before)

\* C28, the state that breaks it: loadCafes() and then deleteCafe("c1") were
\* called; the backend answered the list request, then deleted c1, deleteCafe
\* resolved true, and the list, read before the deletion, was delivered last.
\* cafes holds c1, which the backend no longer has.
DeletedCafeListedWitness ==
  /\ started = 2
  /\ calls = <<>>
  /\ returned.id = 1
  /\ returned.kind = "loadCafes"
  /\ returned.rejection = NoFailure
  /\ returned.before.id = 2
  /\ returned.before.kind = "deleteCafe"
  /\ returned.before.args.cafeId = "c1"
  /\ returned.before.rejection = NoFailure
  /\ ~CafeExists("c1")
  /\ \E k \in DOMAIN cafeStore.cafes : cafeStore.cafes[k].id = "c1"


----------------------------------------------------------------------------
\* C29: the create request of one call of createCafe, createMenu or cloneMenu
\* (one POST handed to HttpClient, behind retryInterceptor) reaches the
\* backend at most once, transport failures included, so that one call
\* creates at most one entity.
CreateReachesBackendOnce ==
  (http.phase # NULL /\ http.method = "POST") =>
    (http.arrived <= 1 /\ http.created <= 1)

\* C29, the state that breaks it: one POST to /api/cafes reached the backend
\* three times; the answers to the first two were lost (status 0) and
\* retryInterceptor sent the request again; the caller got the third answer,
\* and the backend has created three cafes.
CreatedThriceWitness ==
  /\ http.phase = "idle"
  /\ http.requests = 1
  /\ http.method = "POST"
  /\ http.url = <<"api", "cafes">>
  /\ http.statuses = <<0, 0, 200>>
  /\ http.sent = 3
  /\ http.arrived = 3
  /\ http.created = 3
  /\ http.outcome = "ok"


----------------------------------------------------------------------------
\* The createMenu / updateMenu calls of the mounted component's onSubmit that
\* are in flight, in this state and in the next.
SubmitsInFlight == {i \in DOMAIN calls : calls[i].caller = "onSubmit"}

SubmitsInFlightAfter == {i \in DOMAIN calls' : calls'[i].caller = "onSubmit"}

\* At most one submit of the page is in flight, and isSubmitting tells whether
\* one is.
OneSubmitAtATime ==
  view.component = Page =>
    /\ Cardinality(SubmitsInFlight) <= 1
    /\ view.isSubmitting <=> SubmitsInFlight # {}
    /\ \A i \in SubmitsInFlight : calls[i].kind \in {"createMenu", "updateMenu"}

\* C30: one MenuFormPageComponent has at most one createMenu / updateMenu call
\* in flight at any time.  onSubmit invoked while a submit is in flight makes
\* no store call; isSubmitting is false whenever no submit is in flight, after
\* a failed save as well, and onSubmit of a valid form is then accepted: it
\* makes the one store call.
SubmitIsGuarded ==
  [][/\ OneSubmitAtATime
     /\ OneSubmitAtATime'
     /\ (Submits /\ view.component = Page) =>
          /\ view.isSubmitting => UNCHANGED storeVars
          /\ (~view.isSubmitting /\ ~PageInvalid(view)) =>
               /\ started' = started + 1
               /\ SubmitsInFlightAfter = {started'}
               /\ view'.isSubmitting]_vars

\* C30 witness: the createMenu call of the first submit of the page failed and
\* isSubmitting went back to false; the second submit was accepted and its
\* createMenu call is in flight.
ResubmittedAfterFailureWitness ==
  /\ view.component = Page
  /\ view.submits = 2
  /\ view.isSubmitting
  /\ view.navigated = NoRoute
  /\ returned.id = 1
  /\ returned.kind = "createMenu"
  /\ returned.value = NULL
  /\ returned.rejection # NoFailure
  /\ DOMAIN calls = {2}
  /\ calls[2].caller = "onSubmit"
  /\ calls[2].kind = "createMenu"

====
